---- MODULE Spec2Model ----
(***************************************************************************)
(* Tinyshot, the HTML-to-compact-snapshot compressor of                     *)
(* src/src/mcp/tools/tinyshot/tinyshot.ts.                                  *)
(*                                                                         *)
(* A JavaScript string is a TLA+ string; its i-th character is the         *)
(* one-character string SubSeq(s, i, i).  An input page is a record        *)
(* [body, pad]: the characters of body followed by pad space characters    *)
(* (a run-length form, so that inputs of 5,000,000 characters exist).      *)
(***************************************************************************)
EXTENDS Integers, Sequences, FiniteSets, TLC

(* ------------------------------------------------------------------ *)
(* Characters and strings                                              *)
(* ------------------------------------------------------------------ *)

\* Program constants.
MAX_HTML_LENGTH == 5000000
HASH_PREFIX == 1000
CACHE_TTL == 300000
MAX_CACHE_SIZE == 100
DEFAULT_MAX_TEXT == 1000
DEFAULT_MAX_ELEMS == 15
LABEL_LENGTH == 30
DOM_ELEMS_LIMIT == 50

Min(a, b) == IF a <= b THEN a ELSE b
Max(a, b) == IF a >= b THEN a ELSE b

At(s, i) == SubSeq(s, i, i)

LowerAlpha == "abcdefghijklmnopqrstuvwxyz"
UpperAlpha == "ABCDEFGHIJKLMNOPQRSTUVWXYZ"
Digits == "0123456789"
\* The printable ASCII characters in code order: codes 32..95 and 97..126.
AsciiLow == " !\"#$%&'()*+,-./0123456789:;<=>?@ABCDEFGHIJKLMNOPQRSTUVWXYZ[\\]^_"
AsciiHigh == "abcdefghijklmnopqrstuvwxyz{|}~"

CharsOf(alpha) == {At(alpha, i) : i \in 1..Len(alpha)}
UpperSet == CharsOf(UpperAlpha)
LowerSet == CharsOf(LowerAlpha)
DigitSet == CharsOf(Digits)
HexSet == DigitSet \cup CharsOf("abcdef")

IndexIn(alpha, c) ==
  IF \E i \in 1..Len(alpha) : At(alpha, i) = c
  THEN CHOOSE i \in 1..Len(alpha) : At(alpha, i) = c
  ELSE 0

\* String.prototype.charCodeAt for the characters the pages use.
CharCode(c) ==
  CASE c = "\n" -> 10
    [] c = "\t" -> 9
    [] c = "\r" -> 13
    [] IndexIn(AsciiLow, c) # 0 -> 31 + IndexIn(AsciiLow, c)
    [] OTHER -> 96 + IndexIn(AsciiHigh, c)

ToLowerChar(c) == IF c \in UpperSet THEN At(LowerAlpha, IndexIn(UpperAlpha, c)) ELSE c

RECURSIVE ToLower(_)
ToLower(s) == IF s = "" THEN "" ELSE ToLowerChar(At(s, 1)) \o ToLower(SubSeq(s, 2, Len(s)))

\* \s of a JavaScript regular expression, and the characters . does not match.
IsSpace(c) == c \in {" ", "\n", "\t", "\r", "\f"}
IsLineTerminator(c) == c \in {"\n", "\r"}

\* String.prototype.slice(0, n) for n >= 0.
\* A slice that keeps one character too many.
SliceOneMore(s, n) == SubSeq(s, 1, Min(n + 1, Len(s)))
Slice(s, n) == SubSeq(s, 1, Min(n, Len(s)))

\* The least k in lo..hi with P(k), 0 when there is none.
First(lo, hi, P(_)) ==
  IF \E k \in lo..hi : P(k)
  THEN CHOOSE k \in lo..hi : P(k) /\ \A j \in lo..(k - 1) : ~P(j)
  ELSE 0

\* The greatest k in lo..hi with P(k), 0 when there is none.
Last(lo, hi, P(_)) ==
  IF \E k \in lo..hi : P(k)
  THEN CHOOSE k \in lo..hi : P(k) /\ \A j \in (k + 1)..hi : ~P(j)
  ELSE 0

\* piece(lo) \o ... \o piece(hi), by halving (the evaluation stays shallow).
RECURSIVE Pieces(_, _, _)
Pieces(piece(_), lo, hi) ==
  IF lo > hi THEN ""
  ELSE IF lo = hi THEN piece(lo)
  ELSE LET mid == (lo + hi) \div 2 IN Pieces(piece, lo, mid) \o Pieces(piece, mid + 1, hi)

\* A loop: step(st, k) applied for k = lo, ..., hi in turn, from st. The range is
\* halved and the state after the first half is evaluated (by the comparison)
\* before the second half starts, so the evaluation stays shallow.
RECURSIVE Steps(_, _, _, _)
Steps(step(_, _), st, lo, hi) ==
  IF lo > hi THEN st
  ELSE IF lo = hi THEN step(st, lo)
  ELSE LET mid == (lo + hi) \div 2
           half == Steps(step, st, lo, mid)
       IN IF half = half THEN Steps(step, half, mid + 1, hi) ELSE st

\* body applied to the value v: a name for a value that is used several times.
Bind(v, body(_)) == body(v)

\* The number of positions of s that hold c.
Count(s, c) == Cardinality({k \in 1..Len(s) : At(s, k) = c})

\* String.prototype.trim
Trim(s) ==
  LET a == First(1, Len(s), LAMBDA k : ~IsSpace(At(s, k)))
      b == Last(1, Len(s), LAMBDA k : ~IsSpace(At(s, k)))
  IN IF a = 0 THEN "" ELSE SubSeq(s, a, b)

\* s has the lower-case literal lit at position i, compared case-insensitively.
StartsWithCI(s, i, lit) ==
  /\ i + Len(lit) - 1 <= Len(s)
  /\ \A k \in 1..Len(lit) : ToLowerChar(At(s, i + k - 1)) = At(lit, k)

\* s has lit at position i, compared exactly.
StartsWith(s, i, lit) ==
  /\ i + Len(lit) - 1 <= Len(s)
  /\ SubSeq(s, i, i + Len(lit) - 1) = lit

\* String.prototype.includes
Includes(s, sub) == \E i \in 1..(Len(s) - Len(sub) + 1) : StartsWith(s, i, sub)

\* The first position >= i of character c in s, 0 when there is none.
FindChar(s, c, i) == First(i, Len(s), LAMBDA k : At(s, k) = c)

(* ------------------------------------------------------------------ *)
(* The regular expressions of the extractor                            *)
(* ------------------------------------------------------------------ *)

\* A lazy body (.*? or [\s\S]*?) followed by the literal close, from position i:
\* the position where close starts, 0 when the match fails.  Without dotAll the
\* body does not cross a line terminator.
LazyUntil(s, i, close, dotAll) ==
  Bind(First(i, Len(s), LAMBDA j : StartsWithCI(s, j, close)), LAMBDA k :
    IF k = 0 THEN 0
    ELSE IF ~dotAll /\ \E j \in i..(k - 1) : IsLineTerminator(At(s, j)) THEN 0
    ELSE k)

NoMatch == [ok |-> FALSE, start |-> 0, from |-> 0, to |-> 0, end |-> 0]

\* A match of /open[^>]*>BODY<close>/i anchored at position i: the greedy [^>]*
\* can only stop at the first '>', the lazy body at the first close.
MatchBlock(s, i, open, close, dotAll) ==
  IF ~StartsWithCI(s, i, open) THEN NoMatch
  ELSE Bind(FindChar(s, ">", i + Len(open)), LAMBDA g :
         IF g = 0 THEN NoMatch
         ELSE Bind(LazyUntil(s, g + 1, close, dotAll), LAMBDA k :
                IF k = 0 THEN NoMatch
                ELSE [ok |-> TRUE, start |-> i, from |-> g + 1, to |-> k - 1,
                      end |-> k + Len(close) - 1]))

\* The leftmost match starting at or after i.
FirstBlock(s, i, open, close, dotAll) ==
  Bind(First(i, Len(s), LAMBDA j : MatchBlock(s, j, open, close, dotAll).ok), LAMBDA k :
    IF k = 0 THEN NoMatch ELSE MatchBlock(s, k, open, close, dotAll))

\* The matches of a g-flag regular expression, left to right, none overlapping:
\* each step is one exec from lastIndex i (0 once the search has failed).
BlockStep(s, st, open, close, dotAll) ==
  IF st.i = 0 THEN st
  ELSE Bind(FirstBlock(s, st.i, open, close, dotAll), LAMBDA m :
         IF ~m.ok THEN [st EXCEPT !.i = 0]
         ELSE [i |-> m.end + 1, out |-> Append(st.out, m)])

AllBlocks(s, i, open, close, dotAll) ==
  Steps(LAMBDA st, k : BlockStep(s, st, open, close, dotAll),
        [i |-> i, out |-> <<>>], 1, Count(s, "<")).out

\* s with every span of spans (left to right, none overlapping) replaced by rep.
ReplaceSpans(s, spans, rep) ==
  Pieces(LAMBDA k :
           IF k > Len(spans)
           THEN SubSeq(s, (IF k = 1 THEN 1 ELSE spans[k - 1].end + 1), Len(s))
           ELSE SubSeq(s, (IF k = 1 THEN 1 ELSE spans[k - 1].end + 1), spans[k].start - 1) \o rep,
         1, Len(spans) + 1)

\* s.replace(/open[^>]*>[\s\S]*?close/gi, '')
RemoveBlocks(s, open, close) ==
  Bind(AllBlocks(s, 1, open, close, TRUE), LAMBDA spans : ReplaceSpans(s, spans, ""))

\* A match of /<[^>]+>/ anchored at position i: its last position, 0 when none.
TagEnd(s, i) ==
  IF At(s, i) = "<" /\ i + 1 <= Len(s) /\ At(s, i + 1) # ">"
  THEN FindChar(s, ">", i + 2) ELSE 0

\* The matches of /<[^>]+>/g or /<tag[^>]*>/gi (open is the lower-case "<tag",
\* "<" for any tag), left to right.
TagStep(s, st, open) ==
  IF st.i = 0 THEN st
  ELSE
    Bind(First(st.i, Len(s), LAMBDA j :
                IF open = "<" THEN TagEnd(s, j) # 0
                ELSE StartsWithCI(s, j, open) /\ FindChar(s, ">", j + Len(open)) # 0),
         LAMBDA k :
           IF k = 0 THEN [st EXCEPT !.i = 0]
           ELSE Bind((IF open = "<" THEN TagEnd(s, k) ELSE FindChar(s, ">", k + Len(open))),
                     LAMBDA e : [i |-> e + 1, out |-> Append(st.out, [start |-> k, end |-> e])]))

AllTags(s, i, open) ==
  Steps(LAMBDA st, k : TagStep(s, st, open), [i |-> i, out |-> <<>>], 1, Count(s, "<")).out

\* s.replace(/<[^>]+>/g, rep)
ReplaceTags(s, rep) == Bind(AllTags(s, 1, "<"), LAMBDA spans : ReplaceSpans(s, spans, rep))

\* s.replace(/\s+/g, ' ')
CollapseSpaces(s) ==
  LET piece(i) ==
        IF IsSpace(At(s, i))
        THEN (IF i > 1 /\ IsSpace(At(s, i - 1)) THEN "" ELSE " ")
        ELSE At(s, i)
  IN Pieces(piece, 1, Len(s))

(* ------------------------------------------------------------------ *)
(* Input pages                                                         *)
(* ------------------------------------------------------------------ *)

\* html.length
Length(html) == Len(html.body) + html.pad

\* The characters the regular expressions and the parser read: a run of trailing
\* spaces of any positive length acts on each of them like a single space (no
\* pattern of this file ends in a space, \s+ collapses the run, trim drops it).
Squeezed(html) == html.body \o (IF html.pad > 0 THEN " " ELSE "")

(* ------------------------------------------------------------------ *)
(* Title and text                                                      *)
(* ------------------------------------------------------------------ *)

\* a || b for strings.
Or(a, b) == IF a # "" THEN a ELSE b

getTitle(html) ==
  Bind(FirstBlock(Squeezed(html), 1, "<title", "</title>", FALSE), LAMBDA m :
    Or((IF m.ok THEN Trim(SubSeq(Squeezed(html), m.from, m.to)) ELSE ""), "Page"))

getText(html) ==
  Trim(CollapseSpaces(ReplaceTags(RemoveBlocks(RemoveBlocks(Squeezed(html),
                                                            "<script", "</script>"),
                                               "<style", "</style>"),
                                  " ")))

(* ------------------------------------------------------------------ *)
(* Regex fallback                                                      *)
(* ------------------------------------------------------------------ *)

\* input.match(/placeholder=["']([^"']*)/)?.[1] || 'Input'
IsQuote(c) == c \in {"\"", "'"}
RegexPlaceholder(input) ==
  Bind(First(1, Len(input), LAMBDA k :
         StartsWith(input, k, "placeholder=") /\ k + 12 <= Len(input) /\ IsQuote(At(input, k + 12))),
       LAMBDA i :
         IF i = 0 THEN "Input"
         ELSE Bind(First(i + 13, Len(input), LAMBDA k : IsQuote(At(input, k))), LAMBDA q :
                Or(SubSeq(input, i + 13, (IF q = 0 THEN Len(input) ELSE q - 1)), "Input")))

\* The elements pushed for the button or link matches.
RegexTextElems(s, blocks, type, sel) ==
  Bind([k \in 1..Len(blocks) |-> Trim(ReplaceTags(SubSeq(s, blocks[k].start, blocks[k].end), ""))],
       LAMBDA texts :
         Bind(SelectSeq(texts, LAMBDA text : text # ""), LAMBDA kept :
           [j \in 1..Len(kept) |->
              [type |-> type, text |-> Slice(kept[j], LABEL_LENGTH), sel |-> sel]]))

\* The elements pushed for the input matches.
RegexInputElems(s, inputs) ==
  [i \in 1..Len(inputs) |->
     [type |-> "input",
      text |-> RegexPlaceholder(SubSeq(s, inputs[i].start, inputs[i].end)),
      sel |-> "input"]]

\* The matches of /<open[^>]*>.*?<close>/gi in s, as elements.
RegexBlockElems(s, open, close, type, sel) ==
  Bind(AllBlocks(s, 1, open, close, FALSE), LAMBDA blocks : RegexTextElems(s, blocks, type, sel))

getElemsRegex(html) ==
  RegexBlockElems(Squeezed(html), "<button", "</button>", "btn", "button")
  \o RegexBlockElems(Squeezed(html), "<a", "</a>", "link", "a")
  \o Bind(AllTags(Squeezed(html), 1, "<input"), LAMBDA inputs :
         RegexInputElems(Squeezed(html), inputs))

(* ------------------------------------------------------------------ *)
(* Document fingerprint                                                *)
(* ------------------------------------------------------------------ *)

\* A 32-bit integer is the pair <<hi, lo>> of its 16-bit halves (two's
\* complement), so that no intermediate value leaves the checker's integers.
Half == 65536
Mul16(a, b) == (a * (b % 256) + ((a * (b \div 256)) % 256) * 256) % Half
Mul32(x, y) ==
  LET t1 == x[2] * (y[2] % 256)
      t2 == x[2] * (y[2] \div 256)
      low == t1 + (t2 % 256) * 256
  IN <<(low \div Half + t2 \div 256 + Mul16(x[1], y[2]) + Mul16(x[2], y[1])) % Half,
       low % Half>>
Add32(x, y) ==
  LET low == x[2] + y[2] IN <<(x[1] + y[1] + low \div Half) % Half, low % Half>>

RECURSIVE Pow31(_)
Pow31(n) ==
  IF n = 0 THEN <<0, 1>>
  ELSE LET h == Pow31(n \div 2)
           sq == Mul32(h, h)
       IN IF n % 2 = 1 THEN Mul32(sq, <<0, 31>>) ELSE sq

\* The loop hash = ((hash << 5) - hash) + char; hash = hash & hash over the
\* characters lo..hi of s, from hash 0: the value is sum char_i * 31^(hi - i)
\* modulo 2^32, computed here by halving the range.
RECURSIVE HashRange(_, _, _)
HashRange(s, lo, hi) ==
  IF lo > hi THEN <<0, 0>>
  ELSE IF lo = hi THEN <<0, CharCode(At(s, lo))>>
  ELSE LET mid == (lo + hi) \div 2 IN
       Add32(Mul32(HashRange(s, lo, mid), Pow31(hi - mid)), HashRange(s, mid + 1, hi))

\* The same loop over a run of n spaces.
RECURSIVE HashSpaces(_)
HashSpaces(n) ==
  IF n = 0 THEN <<0, 0>>
  ELSE IF n = 1 THEN <<0, CharCode(" ")>>
  ELSE LET k == n \div 2 IN
       Add32(Mul32(HashSpaces(k), Pow31(n - k)), HashSpaces(n - k))

\* The key is hash.toString(36), which is one-to-one on 32-bit integers: the
\* model keeps the integer itself as the key.
generateHtmlHash(html) ==
  LET n == Min(Length(html), HASH_PREFIX)
      nb == Min(Len(html.body), n)
  IN Add32(Mul32(HashRange(html.body, 1, nb), Pow31(n - nb)), HashSpaces(n - nb))

(* ------------------------------------------------------------------ *)
(* The parsed document                                                 *)
(* ------------------------------------------------------------------ *)
(* new JSDOM(html).window.document: the nodes of the document in       *)
(* document order, each [tag, attrs, parent, text]; a text node has    *)
(* tag "#text".  Nodes 1, 2, 3 are html, head and body.  The parser is *)
(* the HTML tree builder without the content-model repairs (implied    *)
(* end tags, nested buttons or anchors, tables), without character     *)
(* references and without '>' inside attribute values; the pages below *)
(* need none of them.                                                  *)
(* ------------------------------------------------------------------ *)

IsLetter(c) == c \in LowerSet \cup UpperSet
IsNameEnd(c) == IsSpace(c) \/ c \in {"/", ">"}
VoidTags == {"area", "base", "br", "col", "embed", "hr", "img", "input", "link", "meta",
             "source", "track", "wbr"}
RawTextTags == {"script", "style", "title", "textarea"}
HeadTags == {"title", "meta", "link", "style", "script", "base"}

\* The attributes written in a (the text of a start tag after its name), in order.
RECURSIVE ParseAttrs(_, _)
ParseAttrs(a, i) ==
  LET n == Len(a)
      b == First(i, n, LAMBDA k : ~(IsSpace(At(a, k)) \/ At(a, k) = "/"))
  IN IF b = 0 THEN <<>>
     ELSE
       LET stop == First(b + 1, n, LAMBDA k : IsSpace(At(a, k)) \/ At(a, k) \in {"=", "/"})
           e == IF stop = 0 THEN n ELSE stop - 1
           name == ToLower(SubSeq(a, b, e))
           eq == First(e + 1, n, LAMBDA k : ~IsSpace(At(a, k)))
       IN IF eq = 0 \/ At(a, eq) # "="
          THEN <<[name |-> name, value |-> ""]>> \o ParseAttrs(a, e + 1)
          ELSE
            LET v == First(eq + 1, n, LAMBDA k : ~IsSpace(At(a, k))) IN
            IF v = 0 THEN <<[name |-> name, value |-> ""]>>
            ELSE IF At(a, v) \in {"\"", "'"}
            THEN LET q == First(v + 1, n, LAMBDA k : At(a, k) = At(a, v))
                     last == IF q = 0 THEN n ELSE q - 1
                 IN <<[name |-> name, value |-> SubSeq(a, v + 1, last)]>>
                    \o ParseAttrs(a, last + 2)
            ELSE LET w == First(v, n, LAMBDA k : IsSpace(At(a, k)))
                     last == IF w = 0 THEN n ELSE w - 1
                 IN <<[name |-> name, value |-> SubSeq(a, v, last)]>>
                    \o ParseAttrs(a, last + 1)

\* Markup starts at position i: a start tag, an end tag, a comment or a doctype.
MarkupAt(s, i) ==
  /\ At(s, i) = "<"
  /\ i + 1 <= Len(s)
  /\ \/ IsLetter(At(s, i + 1))
     \/ At(s, i + 1) = "!"
     \/ At(s, i + 1) = "/" /\ i + 2 <= Len(s) /\ IsLetter(At(s, i + 2))

TextToken(s, from, to) == [kind |-> "text", name |-> "", attrs |-> <<>>, text |-> SubSeq(s, from, to)]

\* One step of the tokenizer at position st.i; st.raw names the raw-text element
\* just opened, st.out holds the tokens so far.
TokenStep(s, st) ==
  LET i == st.i
      raw == st.raw
      done == Len(s) + 1
  IN
  IF i > Len(s) THEN st
  ELSE IF raw # "" THEN
    LET k == First(i, Len(s), LAMBDA j :
               /\ StartsWithCI(s, j, "</" \o raw)
               /\ j + Len(raw) + 2 <= Len(s)
               /\ IsNameEnd(At(s, j + Len(raw) + 2)))
    IN IF k = 0 THEN [i |-> done, raw |-> "", out |-> Append(st.out, TextToken(s, i, Len(s)))]
       ELSE [i |-> k, raw |-> "",
             out |-> IF k > i THEN Append(st.out, TextToken(s, i, k - 1)) ELSE st.out]
  ELSE IF ~MarkupAt(s, i) THEN
    LET k == First(i + 1, Len(s), LAMBDA j : MarkupAt(s, j))
        to == IF k = 0 THEN Len(s) ELSE k - 1
    IN [i |-> to + 1, raw |-> "", out |-> Append(st.out, TextToken(s, i, to))]
  ELSE IF At(s, i + 1) = "!" THEN
    LET c == IF StartsWith(s, i, "<!--")
             THEN First(i + 4, Len(s), LAMBDA j : StartsWith(s, j, "-->"))
             ELSE 0
        g == IF c # 0 THEN c + 2 ELSE FindChar(s, ">", i + 2)
    IN [st EXCEPT !.i = IF g = 0 THEN done ELSE g + 1]
  ELSE
    LET closing == At(s, i + 1) = "/"
        b == IF closing THEN i + 2 ELSE i + 1
        g == FindChar(s, ">", b)
        stop == First(b, Len(s), LAMBDA j : IsNameEnd(At(s, j)))
        name == ToLower(SubSeq(s, b, (IF stop = 0 THEN Len(s) ELSE stop - 1)))
    IN IF g = 0 THEN [st EXCEPT !.i = done]
       ELSE IF closing
       THEN [i |-> g + 1, raw |-> "",
             out |-> Append(st.out, [kind |-> "close", name |-> name, attrs |-> <<>>,
                                     text |-> ""])]
       ELSE [i |-> g + 1, raw |-> IF name \in RawTextTags THEN name ELSE "",
             out |-> Append(st.out, [kind |-> "open", name |-> name,
                                     attrs |-> ParseAttrs(SubSeq(s, stop, g - 1), 1),
                                     text |-> ""])]

\* The tokens of s: every step but those inside a comment or doctype starts at a
\* "<" or ends before one.
Tokens(s) ==
  Steps(LAMBDA st, k : TokenStep(s, st), [i |-> 1, raw |-> "", out |-> <<>>],
        1, 2 * Count(s, "<") + 1).out

HasAttr(attrs, name) == \E k \in 1..Len(attrs) : attrs[k].name = name
\* Later duplicates of an attribute are dropped.
NodeAttrs(attrs) ==
  LET keep == SelectSeq([k \in 1..Len(attrs) |-> k],
                        LAMBDA k : ~\E j \in 1..(k - 1) : attrs[j].name = attrs[k].name)
  IN [i \in 1..Len(keep) |-> attrs[keep[i]]]
\* A start tag for html or body adds the attributes the element lacks.
MergeAttrs(old, attrs) ==
  old \o SelectSeq(NodeAttrs(attrs), LAMBDA r : ~HasAttr(old, r.name))

ElementNode(tag, attrs, parent) == [tag |-> tag, attrs |-> attrs, parent |-> parent, text |-> ""]
TextNode(text, parent) == [tag |-> "#text", attrs |-> <<>>, parent |-> parent, text |-> text]
EmptyDocument == <<ElementNode("html", <<>>, 0), ElementNode("head", <<>>, 1),
                   ElementNode("body", <<>>, 1)>>
HTML_NODE == 1
HEAD_NODE == 2
BODY_NODE == 3

IsBlank(t) == \A k \in 1..Len(t) : IsSpace(At(t, k))

\* One step of the tree builder on token t: st.stack holds the open elements (node
\* numbers); in head mode (before any body content) head elements go under head.
BuildStep(st, t) ==
  LET nodes == st.nodes
      stack == st.stack
      mode == st.mode
      top == stack[Len(stack)]
      inHead == mode = "head" /\ Len(stack) = 1
  IN
  IF t.kind = "text" THEN
    IF inHead /\ IsBlank(t.text) THEN st
    ELSE IF inHead
    THEN [nodes |-> Append(nodes, TextNode(t.text, BODY_NODE)), stack |-> <<BODY_NODE>>,
          mode |-> "body"]
    ELSE [st EXCEPT !.nodes = Append(nodes, TextNode(t.text, top))]
  ELSE IF t.kind = "close" THEN
    IF t.name = "head" /\ mode = "head"
    THEN [st EXCEPT !.stack = <<BODY_NODE>>, !.mode = "body"]
    ELSE IF t.name \in {"html", "body", "head"} THEN st
    ELSE LET open == Last(2, Len(stack), LAMBDA j : nodes[stack[j]].tag = t.name) IN
         IF open = 0 THEN st ELSE [st EXCEPT !.stack = SubSeq(stack, 1, open - 1)]
  ELSE IF t.name = "html" THEN
    [st EXCEPT !.nodes = [nodes EXCEPT ![HTML_NODE].attrs = MergeAttrs(@, t.attrs)]]
  ELSE IF t.name = "head" THEN st
  ELSE IF t.name = "body" THEN
    [nodes |-> [nodes EXCEPT ![BODY_NODE].attrs = MergeAttrs(@, t.attrs)],
     stack |-> IF inHead THEN <<BODY_NODE>> ELSE stack,
     mode |-> "body"]
  ELSE
    LET toHead == inHead /\ t.name \in HeadTags
        base == IF inHead /\ ~toHead THEN <<BODY_NODE>> ELSE stack
        parent == IF toHead THEN HEAD_NODE ELSE base[Len(base)]
        grown == Append(nodes, ElementNode(t.name, NodeAttrs(t.attrs), parent))
    IN [nodes |-> grown,
        stack |-> IF t.name \in VoidTags THEN base ELSE Append(base, Len(grown)),
        mode |-> IF toHead THEN "head" ELSE "body"]

Build(toks) ==
  Steps(LAMBDA st, k : BuildStep(st, toks[k]),
        [nodes |-> EmptyDocument, stack |-> <<HEAD_NODE>>, mode |-> "head"],
        1, Len(toks)).nodes

Parse(html) == Build(Tokens(Squeezed(html)))

(* ------------------------------------------------------------------ *)
(* DOM accessors (d is a parsed document, n a node number)             *)
(* ------------------------------------------------------------------ *)

IsElement(d, n) == d[n].tag # "#text"
\* element.getAttribute(name) || ''
Attr(d, n, name) ==
  Bind(First(1, Len(d[n].attrs), LAMBDA j : d[n].attrs[j].name = name), LAMBDA k :
    IF k = 0 THEN "" ELSE d[n].attrs[k].value)
hasAttribute(d, n, name) == HasAttr(d[n].attrs, name)
\* element.parentElement, 0 for null
parentElement(d, n) == d[n].parent

RECURSIVE IsInside(_, _, _)
\* n is a or a descendant of a.
IsInside(d, a, n) == IF n = 0 THEN FALSE ELSE IF n = a THEN TRUE ELSE IsInside(d, a, d[n].parent)

\* element.textContent
textContent(d, n) ==
  LET piece(k) == IF d[k].tag = "#text" /\ IsInside(d, n, k) THEN d[k].text ELSE ""
  IN Pieces(piece, n, Len(d))

\* Array.from(element.children)
children(d, n) == SelectSeq([k \in 1..Len(d) |-> k], LAMBDA k : d[k].parent = n /\ IsElement(d, k))

\* The whitespace-separated tokens of a class attribute, without repetition.
RECURSIVE SplitWords(_, _)
SplitWords(s, i) ==
  Bind(First(i, Len(s), LAMBDA k : ~IsSpace(At(s, k))), LAMBDA b :
    IF b = 0 THEN <<>>
    ELSE Bind(First(b, Len(s), LAMBDA k : IsSpace(At(s, k))), LAMBDA e :
           Bind((IF e = 0 THEN Len(s) ELSE e - 1), LAMBDA last :
             <<SubSeq(s, b, last)>> \o SplitWords(s, last + 1))))
\* w without the later repetitions of a word.
Distinct(w) ==
  Bind(SelectSeq([k \in 1..Len(w) |-> k], LAMBDA k : ~\E j \in 1..(k - 1) : w[j] = w[k]),
       LAMBDA keep : [i \in 1..Len(keep) |-> w[keep[i]]])
classList(d, n) == Bind(SplitWords(Attr(d, n, "class"), 1), Distinct)

(* ------------------------------------------------------------------ *)
(* Candidate selection                                                 *)
(* ------------------------------------------------------------------ *)

Selectors == <<"button", "a[href]", "input[type]:not([type=\"hidden\"])", "select", "textarea",
               "[role=\"button\"]", "[role=\"link\"]", "[role=\"menuitem\"]", "[onclick]",
               "nav a", ".menu a", ".nav-link">>

HasClass(d, n, c) == Bind(classList(d, n), LAMBDA classes : \E k \in 1..Len(classes) : classes[k] = c)
HasAncestor(d, n, P(_)) == \E a \in 1..Len(d) : a # n /\ IsElement(d, a) /\ IsInside(d, a, n) /\ P(a)

\* element.matches(selector) for the selectors of the list.
Matches(d, n, selector) ==
  LET tag == d[n].tag IN
  CASE selector = "button" -> tag = "button"
    [] selector = "a[href]" -> tag = "a" /\ hasAttribute(d, n, "href")
    [] selector = "input[type]:not([type=\"hidden\"])" ->
         tag = "input" /\ hasAttribute(d, n, "type") /\ ToLower(Attr(d, n, "type")) # "hidden"
    [] selector = "select" -> tag = "select"
    [] selector = "textarea" -> tag = "textarea"
    [] selector = "[role=\"button\"]" -> hasAttribute(d, n, "role") /\ Attr(d, n, "role") = "button"
    [] selector = "[role=\"link\"]" -> hasAttribute(d, n, "role") /\ Attr(d, n, "role") = "link"
    [] selector = "[role=\"menuitem\"]" -> hasAttribute(d, n, "role") /\ Attr(d, n, "role") = "menuitem"
    [] selector = "[onclick]" -> hasAttribute(d, n, "onclick")
    [] selector = "nav a" -> tag = "a" /\ HasAncestor(d, n, LAMBDA a : d[a].tag = "nav")
    [] selector = ".menu a" -> tag = "a" /\ HasAncestor(d, n, LAMBDA a : HasClass(d, a, "menu"))
    [] selector = ".nav-link" -> HasClass(d, n, "nav-link")

\* document.querySelectorAll(selector): the matching elements in document order.
querySelectorAll(d, selector) ==
  SelectSeq([k \in 1..Len(d) |-> k], LAMBDA k : IsElement(d, k) /\ Matches(d, k, selector))

isMeaningfulElement(d, n) ==
  Bind(Trim(textContent(d, n)), LAMBDA text :
    IF text = "" /\ d[n].tag # "input" THEN FALSE
    ELSE IF Len(text) > 100 THEN FALSE
    ELSE TRUE)

HiddenPatterns == {"hidden", "invisible", "d-none", "sr-only", "visually-hidden"}

RECURSIVE isVisible(_, _)
isVisible(d, n) ==
  IF hasAttribute(d, n, "hidden") THEN FALSE
  ELSE IF Bind(Attr(d, n, "style"), LAMBDA style :
            \/ Includes(style, "display:none") \/ Includes(style, "display: none")
            \/ Includes(style, "visibility:hidden") \/ Includes(style, "visibility: hidden"))
  THEN FALSE
  ELSE IF Bind(Attr(d, n, "class"), LAMBDA className :
            \E pattern \in HiddenPatterns : Includes(className, pattern))
  THEN FALSE
  ELSE Bind(parentElement(d, n), LAMBDA parent :
         IF parent # 0 /\ parent # BODY_NODE /\ parent # HTML_NODE THEN isVisible(d, parent)
         ELSE TRUE)

(* ------------------------------------------------------------------ *)
(* Wrapper unwrapping                                                  *)
(* ------------------------------------------------------------------ *)

getOwnText(d, n) ==
  LET piece(k) == IF d[k].tag = "#text" /\ d[k].parent = n THEN d[k].text ELSE ""
  IN Pieces(piece, n, Len(d))

MeaningfulAttrs == <<"id", "data-", "aria-", "role", "onclick", "onchange">>

hasMeaningfulAttributes(d, n) ==
  \E k \in 1..Len(d[n].attrs) :
    LET attr == d[n].attrs[k].name IN
    /\ attr \notin {"class", "style"}
    /\ \E m \in 1..Len(MeaningfulAttrs) : StartsWith(attr, 1, MeaningfulAttrs[m])

isUselessWrapper(d, n) ==
  IF d[n].tag \notin {"div", "span"} THEN FALSE
  ELSE IF Trim(getOwnText(d, n)) # "" THEN FALSE
  ELSE IF Len(children(d, n)) # 1 THEN FALSE
  ELSE IF hasMeaningfulAttributes(d, n) THEN FALSE
  ELSE TRUE

extractMeaningfulChild(d, n) ==
  Bind(children(d, n), LAMBDA kids : IF Len(kids) = 1 THEN kids[1] ELSE n)

UNWRAP_DEPTH == 5

\* The while loop of unwrapUselessWrappers for one element.
RECURSIVE UnwrapOne(_, _, _)
UnwrapOne(d, n, depth) ==
  IF isUselessWrapper(d, n) /\ depth < UNWRAP_DEPTH
  THEN UnwrapOne(d, extractMeaningfulChild(d, n), depth + 1)
  ELSE n

\* An unwrapping that pushes every element it reaches, seen before or not.
unwrapKeepingDuplicates(d, elements) ==
  Steps(LAMBDA unwrapped, k : Append(unwrapped, UnwrapOne(d, elements[k], 0)),
        <<>>, 1, Len(elements))
unwrapUselessWrappers(d, elements) ==
  Steps(LAMBDA unwrapped, k :
          Bind(UnwrapOne(d, elements[k], 0), LAMBDA element :
            IF \E j \in 1..Len(unwrapped) : unwrapped[j] = element
            THEN unwrapped ELSE Append(unwrapped, element)),
        <<>>, 1, Len(elements))

\* The elements one selector contributes.
SelectorMatches(d, selector) ==
  SelectSeq(querySelectorAll(d, selector), LAMBDA n : isMeaningfulElement(d, n) /\ isVisible(d, n))

RECURSIVE CandidatesFrom(_, _)
CandidatesFrom(d, k) ==
  IF k > Len(Selectors) THEN <<>>
  ELSE SelectorMatches(d, Selectors[k]) \o CandidatesFrom(d, k + 1)

findMeaningfulElements(d) == unwrapUselessWrappers(d, CandidatesFrom(d, 1))

(* ------------------------------------------------------------------ *)
(* Selector synthesis                                                  *)
(* ------------------------------------------------------------------ *)

AllIn(s, set) == \A k \in 1..Len(s) : ToLowerChar(At(s, k)) \in set

\* /^(auto|gen|temp|[a-f0-9]{8,}|\d+)$/i
MeaninglessIdPattern(id) ==
  \/ ToLower(id) \in {"auto", "gen", "temp"}
  \/ Len(id) >= 8 /\ AllIn(id, HexSet)
  \/ Len(id) >= 1 /\ AllIn(id, DigitSet)

isMeaningfulId(id) == ~MeaninglessIdPattern(id) /\ Len(id) < 30 /\ Len(id) > 2

MeaningfulClassNames ==
  {"btn", "button", "link", "nav", "menu", "form", "input", "search", "login", "header",
   "footer", "main", "primary", "secondary", "submit", "cancel", "close", "back", "next",
   "prev", "home", "user", "account", "profile", "settings", "logout", "signin", "signup"}
MeaninglessClassNames ==
  {"col-", "row-", "d-", "m-", "mt-", "mb-", "ml-", "mr-", "p-", "pt-", "pb-", "pl-", "pr-",
   "text-", "bg-", "border-", "w-", "h-", "flex", "grid", "absolute", "relative", "fixed",
   "static"}

isMeaningfulClass(className) ==
  /\ ToLower(className) \in MeaningfulClassNames
  /\ ~(\/ ToLower(className) \in MeaninglessClassNames
       \/ Len(className) >= 6 /\ AllIn(className, HexSet))

LandmarkTags == {"nav", "form", "header", "footer", "main", "aside"}
PARENT_CONTEXT_DEPTH == 3
ELEMENT_CONTEXT_DEPTH == 2

RECURSIVE ParentContextFrom(_, _, _)
ParentContextFrom(d, parent, depth) ==
  IF parent = 0 \/ depth >= PARENT_CONTEXT_DEPTH THEN ""
  ELSE IF d[parent].tag \in LandmarkTags THEN d[parent].tag
  ELSE Bind(Attr(d, parent, "id"), LAMBDA id :
         IF id # "" /\ isMeaningfulId(id) THEN "#" \o id
         ELSE Bind(SelectSeq(classList(d, parent), isMeaningfulClass), LAMBDA meaningful :
                IF Len(meaningful) > 0 THEN "." \o meaningful[1]
                ELSE ParentContextFrom(d, parentElement(d, parent), depth + 1)))

getParentContext(d, n) == ParentContextFrom(d, parentElement(d, n), 0)

getElementCacheKey(d, n) ==
  d[n].tag \o "-" \o Attr(d, n, "id") \o "-" \o Attr(d, n, "class") \o "-" \o Attr(d, n, "type")

\* '.' + meaningfulClasses.slice(0, 2).join('.'), '' when there is none.
ClassPart(meaningfulClasses) ==
  IF Len(meaningfulClasses) = 0 THEN ""
  ELSE IF Len(meaningfulClasses) = 1 THEN "." \o meaningfulClasses[1]
  ELSE "." \o meaningfulClasses[1] \o "." \o meaningfulClasses[2]

\* `[type="${type}"]` for an input with a type, '' otherwise.
TypePart(tag, type) == IF tag = "input" /\ type # "" THEN "[type=\"" \o type \o "\"]" ELSE ""

\* The selector computed afresh (the function body after the cache lookup).
ComputeSelector(d, n) ==
  Bind(Attr(d, n, "id"), LAMBDA id :
    IF id # "" /\ isMeaningfulId(id) THEN "#" \o id
    ELSE Bind(d[n].tag \o ClassPart(SelectSeq(classList(d, n), isMeaningfulClass))
                \o TypePart(d[n].tag, Attr(d, n, "type")),
              LAMBDA selector :
                Bind(getParentContext(d, n), LAMBDA parentContext :
                  IF parentContext # "" THEN parentContext \o " " \o selector ELSE selector)))

\* The selector cache is a function from keys to selectors.
EmptyCache == <<>>
CacheHas(cache, key) == key \in DOMAIN cache
CacheSet(cache, key, value) == (key :> value) @@ cache

\* Returns the selector and the selector cache after the call.
generateMeaningfulSelector(d, n, cache) ==
  Bind(getElementCacheKey(d, n), LAMBDA cacheKey :
    IF CacheHas(cache, cacheKey) THEN [sel |-> cache[cacheKey], cache |-> cache]
    ELSE Bind(ComputeSelector(d, n), LAMBDA result :
           [sel |-> result, cache |-> CacheSet(cache, cacheKey, result)]))

SectionClasses == <<"menu", "sidebar", "content", "login", "search">>

\* cls.replace(/[-_]/g, ' ')
DashesToSpaces(cls) ==
  LET piece(k) == IF At(cls, k) \in {"-", "_"} THEN " " ELSE At(cls, k)
  IN Pieces(piece, 1, Len(cls))

\* sectionClasses.some(section => cls.includes(section))
IsSectionClass(cls) == \E m \in 1..Len(SectionClasses) : Includes(cls, SectionClasses[m])

\* The contexts array after the walk from parent, joined with ' > '.
RECURSIVE ElementContextFrom(_, _, _)
ElementContextFrom(d, parent, depth) ==
  IF parent = 0 \/ depth >= ELEMENT_CONTEXT_DEPTH THEN <<>>
  ELSE ElementContextFrom(d, parentElement(d, parent), depth + 1)
       \o Bind(SelectSeq(classList(d, parent), IsSectionClass), LAMBDA section :
              IF Len(section) > 0 THEN <<DashesToSpaces(section[1])>> ELSE <<>>)
       \o (IF d[parent].tag \in LandmarkTags THEN <<d[parent].tag>> ELSE <<>>)

RECURSIVE Join(_, _)
Join(parts, sep) ==
  IF Len(parts) = 0 THEN ""
  ELSE IF Len(parts) = 1 THEN parts[1]
  ELSE parts[1] \o sep \o Join(Tail(parts), sep)

getElementContext(d, n) == Join(ElementContextFrom(d, parentElement(d, n), 0), " > ")

\* The switch of elemToElem on the tag, given the element's trimmed text, its
\* selector and its context.
ElemFor(d, n, tag, text, meaningfulSelector, context) ==
     CASE tag = "button" ->
            [type |-> "btn", text |-> Slice(text, LABEL_LENGTH), sel |-> meaningfulSelector,
             context |-> Or(context, "page button")]
       [] tag = "a" ->
            [type |-> "link", text |-> Slice(text, LABEL_LENGTH), sel |-> meaningfulSelector,
             context |-> Or(context, "page link")]
       [] tag = "input" ->
            [type |-> "input",
             text |-> Or(Attr(d, n, "placeholder"), Or(Attr(d, n, "name"), "Input")),
             sel |-> meaningfulSelector,
             context |-> Or(context, Or(Attr(d, n, "type"), "text") \o " input")]
       [] tag = "select" ->
            [type |-> "select", text |-> Or(Slice(text, LABEL_LENGTH), "Select"),
             sel |-> meaningfulSelector, context |-> Or(context, "dropdown select")]
       [] tag = "textarea" ->
            [type |-> "input", text |-> Or(Attr(d, n, "placeholder"), "Text area"),
             sel |-> meaningfulSelector, context |-> Or(context, "text area")]
       [] OTHER ->
            [type |-> "btn", text |-> Slice(text, LABEL_LENGTH), sel |-> meaningfulSelector,
             context |-> Or(context, tag \o " element")]

\* The Elem of elemToElem for a given selector.
ElemOf(d, n, meaningfulSelector) ==
  ElemFor(d, n, d[n].tag, Trim(textContent(d, n)), meaningfulSelector, getElementContext(d, n))

\* What the conversion of element n reads from the document, computed once per
\* document: the cache key, the selector computed afresh, and the Elem (its sel
\* is filled in from the selector cache or from fresh).
ElementView(d, n) ==
  [node |-> n, key |-> getElementCacheKey(d, n), fresh |-> ComputeSelector(d, n),
   elem |-> ElemOf(d, n, "")]

\* Returns the Elem and the selector cache after the call.
elemToElem(view, cache) ==
  IF CacheHas(cache, view.key)
  THEN [elem |-> [view.elem EXCEPT !.sel = cache[view.key]], cache |-> cache]
  ELSE [elem |-> [view.elem EXCEPT !.sel = view.fresh],
        cache |-> CacheSet(cache, view.key, view.fresh)]

\* meaningfulElems.map(elem => this.elemToElem(elem)), threading the selector cache.
MapElems(views, cache) ==
  Steps(LAMBDA st, k :
          Bind(elemToElem(views[k], st.cache), LAMBDA r :
            [elems |-> Append(st.elems, r.elem), cache |-> r.cache]),
        [elems |-> <<>>, cache |-> cache], 1, Len(views))

(* ------------------------------------------------------------------ *)
(* Restore: a snapshot back to a semantic HTML skeleton                *)
(* ------------------------------------------------------------------ *)

\* s.replace(/c/g, rep) for a one-character pattern c.
ReplaceChar(s, c, rep) == Pieces(LAMBDA k : IF At(s, k) = c THEN rep ELSE At(s, k), 1, Len(s))

\* The five replacements with the ampersand replaced last.
escapeHtmlAmpersandLast(text) ==
  ReplaceChar(ReplaceChar(ReplaceChar(ReplaceChar(ReplaceChar(text, "<", "&lt;"),
                                                  ">", "&gt;"),
                                      "\"", "&quot;"),
                          "'", "&#x27;"),
              "&", "&amp;")
escapeHtml(text) ==
  ReplaceChar(ReplaceChar(ReplaceChar(ReplaceChar(ReplaceChar(text, "&", "&amp;"),
                                                  "<", "&lt;"),
                                      ">", "&gt;"),
                          "\"", "&quot;"),
              "'", "&#x27;")

\* elem.context || 'main'
ContextOf(elem) == IF "context" \in DOMAIN elem THEN Or(elem.context, "main") ELSE "main"

\* The Map of groupElementsByContext: its keys in insertion order.
groupElementsByContext(elements) ==
  Distinct([k \in 1..Len(elements) |-> ContextOf(elements[k])])
\* elementsByContext.get(context) || []
GroupOf(elements, context) == SelectSeq(elements, LAMBDA elem : ContextOf(elem) = context)
\* contexts.flatMap(ctx => elementsByContext.get(ctx) || [])
RECURSIVE FlatGroups(_, _)
FlatGroups(elements, contexts) ==
  IF Len(contexts) = 0 THEN <<>>
  ELSE GroupOf(elements, contexts[1]) \o FlatGroups(elements, Tail(contexts))

elemToHtml(elem, indent) ==
  CASE elem.type = "btn" ->
         indent \o "<button sel=\"" \o elem.sel \o "\">" \o escapeHtml(elem.text) \o "</button>"
    [] elem.type = "link" ->
         indent \o "<a href=\"#\" sel=\"" \o elem.sel \o "\">" \o escapeHtml(elem.text) \o "</a>"
    [] elem.type = "input" ->
         indent \o "<input type=\"text\" sel=\"" \o elem.sel \o "\" placeholder=\""
           \o escapeHtml(elem.text) \o "\">"
    [] elem.type = "select" ->
         indent \o "<select sel=\"" \o elem.sel \o "\"><option>" \o escapeHtml(elem.text)
           \o "</option></select>"
    [] OTHER ->
         indent \o "<div sel=\"" \o elem.sel \o "\">" \o escapeHtml(elem.text) \o "</div>"

\* elements.map(elem => this.elemToHtml(elem, indent))
ElemsToHtml(elements, indent) == [k \in 1..Len(elements) |-> elemToHtml(elements[k], indent)]

generateNavSection(elements) ==
  "  <header>\n    <nav>\n" \o Join(ElemsToHtml(elements, "      "), "\n")
    \o "\n    </nav>\n  </header>"

generateHeaderSection(elements) ==
  "  <header>\n" \o Join(ElemsToHtml(elements, "    "), "\n") \o "\n  </header>"

generateFormSection(elements) ==
  "    <form>\n" \o Join(ElemsToHtml(elements, "      "), "\n") \o "\n    </form>"

\* The end of the leftmost match of /\n\s*\n/ that starts at position i: the last
\* line feed of the run of white space after i, 0 when the run holds none.
SeparatorEnd(text, i) ==
  IF At(text, i) # "\n" THEN 0
  ELSE Bind(First(i + 1, Len(text), LAMBDA k : ~IsSpace(At(text, k))), LAMBDA stop :
         Last(i + 1, (IF stop = 0 THEN Len(text) ELSE stop - 1), LAMBDA k : At(text, k) = "\n"))

\* pageText.split(/\n\s*\n/)
RECURSIVE SplitParagraphs(_)
SplitParagraphs(text) ==
  Bind(First(1, Len(text), LAMBDA i : SeparatorEnd(text, i) # 0), LAMBDA i :
    IF i = 0 THEN <<text>>
    ELSE <<SubSeq(text, 1, i - 1)>>
         \o SplitParagraphs(SubSeq(text, SeparatorEnd(text, i) + 1, Len(text))))

\* The <p> lines of generateContentSection.
ParagraphLines(pageText) ==
  IF Trim(pageText) = "" THEN <<>>
  ELSE Bind(SelectSeq(SplitParagraphs(pageText), LAMBDA p : Trim(p) # ""), LAMBDA paragraphs :
         [k \in 1..Len(paragraphs) |-> "      <p>" \o escapeHtml(Trim(paragraphs[k])) \o "</p>"])

generateContentSection(pageText, elements) ==
  "    <section>\n"
    \o Join(ParagraphLines(pageText)
            \o (IF Len(elements) > 0
                THEN <<"      <div class=\"actions\">">> \o ElemsToHtml(elements, "        ")
                     \o <<"      </div>">>
                ELSE <<>>),
            "\n")
    \o "\n    </section>"

NavContexts == <<"nav", "nav > menu">>
FormContexts == <<"form", "form > login", "login form", "search form">>
IsSectionContext(context) ==
  \/ context = "header"
  \/ \E k \in 1..Len(NavContexts) : NavContexts[k] = context
  \/ \E k \in 1..Len(FormContexts) : FormContexts[k] = context

\* The sections of <main>.
MainSections(elements, pageText) ==
  Bind(FlatGroups(elements, FormContexts), LAMBDA formElems :
    Bind(FlatGroups(elements, SelectSeq(groupElementsByContext(elements),
                                        LAMBDA context : ~IsSectionContext(context))),
         LAMBDA generalElems :
           (IF Len(formElems) > 0 THEN <<generateFormSection(formElems)>> ELSE <<>>)
           \o (IF Trim(pageText) # "" \/ Len(generalElems) > 0
               THEN <<generateContentSection(pageText, generalElems)>> ELSE <<>>)))

\* elementsByContext is the grouping of elements.
generateSemanticBody(elements, pageText) ==
  Join(Bind(FlatGroups(elements, NavContexts), LAMBDA navElems :
         IF Len(navElems) > 0 THEN <<generateNavSection(navElems)>> ELSE <<>>)
       \o Bind(GroupOf(elements, "header"), LAMBDA headerElems :
            IF Len(headerElems) > 0 THEN <<generateHeaderSection(headerElems)>> ELSE <<>>)
       \o Bind(MainSections(elements, pageText), LAMBDA mainSections :
            IF Len(mainSections) > 0
            THEN <<"  <main>\n" \o Join(mainSections, "\n") \o "\n  </main>">> ELSE <<>>),
       "\n")

\* A restore that returns nothing for a snapshot without text and elements.
restoreUnlessSparse(snapshot) ==
  IF Trim(snapshot.text) = "" /\ Len(snapshot.elems) = 0 THEN ""
  ELSE "<!DOCTYPE html>\n<html>\n<head>\n  <title>" \o escapeHtml(snapshot.title)
       \o "</title>\n</head>\n<body>\n" \o generateSemanticBody(snapshot.elems, snapshot.text)
       \o "\n</body>\n</html>"
restore(snapshot) ==
  "<!DOCTYPE html>\n<html>\n<head>\n  <title>" \o escapeHtml(snapshot.title)
    \o "</title>\n</head>\n<body>\n" \o generateSemanticBody(snapshot.elems, snapshot.text)
    \o "\n</body>\n</html>"

(* ------------------------------------------------------------------ *)
(* Inputs                                                              *)
(* ------------------------------------------------------------------ *)

RECURSIVE Repeat(_, _)
Repeat(s, n) ==
  IF n = 0 THEN "" ELSE IF n = 1 THEN s
  ELSE Repeat(s, n \div 2) \o Repeat(s, n - n \div 2)

Page(body) == [body |-> body, pad |-> 0]
\* body followed by spaces up to a total length of total characters.
Padded(body, total) == [body |-> body, pad |-> total - Len(body)]

LoginPage == Page("<html><head><title>Login</title></head><body><form><input type=\"text\" placeholder=\"Username\"><input type=\"password\" placeholder=\"Password\"><button>Sign In</button></form></body></html>")
\* The login page with "<in" of its first tag written "<jO": the same hash, and a
\* document without the text input.
LoginCollisionPage == Page("<html><head><title>Login</title></head><body><form><jOput type=\"text\" placeholder=\"Username\"><input type=\"password\" placeholder=\"Password\"><button>Sign In</button></form></body></html>")
ScriptPage == Page("<p>A</p><script>danger()</script><p>B</p>")
StyleScriptPage == Page("<style>p{color:red}</style><p>A</p><SCRIPT type=\"module\">\ndanger()\n</SCRIPT>")
LooseScriptPage == Page("<p>A</p><script>danger()</script ><p>B</p>")
HiddenSiblingPage == Page("<button style=\"display:none\">Hidden</button><button>Visible</button>")
HiddenOnlyPage == Page("<div class=\"d-none\"><button>Hidden</button><a href=\"/x\">Secret</a></div>")
LongLabelPage == Page("<title>Sign up</title><input type=\"text\" placeholder=\"Enter the e-mail address of your account\"><button>Create my account right now, please</button>")
MultiLineTitlePage == Page("<html><head><title>\n  Login\n</title></head><body><button>Go</button></body></html>")
BlankTitlePage == Page("<TITLE lang=\"en\"> \t</TITLE><a href=\"/\">Home</a>")
MalformedPage == Page("<div><button>Open<a href=x>Link</b></div\n<<>&\t<p")
EmptyPage == Page("")
ExternalScriptPage == Page("<script src=\"https://cdn.example/app.js\"></script><button>Go</button>")
NavFooterPage == Page("<nav><a href=\"/\">Home</a></nav><footer><a href=\"/terms\">Terms</a></footer>")
LongTextPage == Page("<p>" \o Repeat("lorem ipsum ", 85) \o "</p>")
ManyButtonsPage == Page(Repeat("<button>b</button>", 16))
AtLimitPage == Padded("<title>Big</title><button>Go</button>", MAX_HTML_LENGTH)
OverLimitPage == Padded("<title>Big</title><button>Go</button>", MAX_HTML_LENGTH + 1)

Pages ==
  {LoginPage, LoginCollisionPage, ScriptPage, StyleScriptPage, LooseScriptPage, HiddenSiblingPage, HiddenOnlyPage,
   LongLabelPage, MultiLineTitlePage, BlankTitlePage, MalformedPage, EmptyPage, ExternalScriptPage, NavFooterPage, LongTextPage, ManyButtonsPage, AtLimitPage, OverLimitPage}

\* Pages for the DOM pass on its own: an element that several selectors match,
\* in a document order that is not the scan order; wrappers around one link;
\* six wrappers around a button; a wrapper around an element no selector
\* matches; a wrapper around a hidden link, after a typed input; a hidden body;
\* a hidden block whose input, link and button only the regex pass sees; ids and
\* classes of every kind; and more buttons than the DOM pass returns.
MultiMatchPage == Page("<input type=\"text\" name=\"q\"><nav><a href=\"/\" class=\"nav-link\" onclick=\"go()\">Home</a></nav><button onclick=\"save()\">Save</button>")
WrappedLinkPage == Page("<div class=\"nav-link\"><span class=\"nav-link\"><a href=\"/d\" class=\"nav-link\">Docs</a></span></div>")
DeepWrapperPage == Page("<div class=\"nav-link\"><div><div><div><div><div><button>Deep</button></div></div></div></div></div></div>")
UnmatchedChildPage == Page("<div class=\"nav-link\"><p>Docs</p></div>")
HiddenChildPage == Page("<input type=\"text\" name=\"q\"><div class=\"nav-link\"><a href=\"/s\" hidden>Skip</a></div>")
HiddenBodyPage == Page("<html><body hidden><div><button>Go</button></div></body></html>")
HiddenFormPage == Page("<div hidden><div><input type=\"text\" placeholder=\"Q\"><a href=\"/x\">Secret</a><button>Hidden</button></div></div>")
SelectorsPage == Page("<main><button id=\"save\" class=\"btn\">Save</button><button id=\"42\" class=\"btn primary submit mt-\">Send</button></main><div id=\"tools\"><div><div><div><input type=\"email\" class=\"x\"><input type=\"\" class=\"input\"></div></div><select><option>One</option></select></div></div>")
FiftyOneButtonsPage == Page(Repeat("<button>b</button>", DOM_ELEMS_LIMIT + 1))

DomPages ==
  {MultiMatchPage, WrappedLinkPage, DeepWrapperPage, UnmatchedChildPage, HiddenChildPage,
   HiddenBodyPage, HiddenFormPage, SelectorsPage, FiftyOneButtonsPage, NavFooterPage,
   HiddenOnlyPage, LoginPage}
AllPages == Pages \cup DomPages

\* Options records; an absent field takes its default.
NoOpts == [o \in {} |-> 0]
OptsSet == {NoOpts, [maxText |-> 50, maxElems |-> 1]}
\* Options of the calls on the pages of the DOM pass: maxElems above the 50 of the
\* DOM pass.
DomOptsSet == {NoOpts, [maxElems |-> DOM_ELEMS_LIMIT + 10]}

\* Snapshots handed to restore that no call of tiny produced: the sparsest one,
\* and one with markup characters in every text value and an element in each
\* region of the skeleton.
SparseSnapshot == [title |-> "", text |-> "", elems |-> <<>>]
MarkupSnapshot ==
  [title |-> "Q&A <\"it's\">",
   text |-> "a < b\n \n\n'c' & d\n> e",
   elems |-> <<[type |-> "btn", text |-> "Save & <Close>", sel |-> "#save", context |-> "nav"],
               [type |-> "link", text |-> "Tom's \"page\"", sel |-> "nav a",
                context |-> "nav > menu"],
               [type |-> "link", text |-> "Home", sel |-> "header a", context |-> "header"],
               [type |-> "input", text |-> "Name", sel |-> "#name", context |-> "login form"],
               [type |-> "select", text |-> "Pick <one>", sel |-> "select",
                context |-> "sidebar"],
               [type |-> "btn", text |-> "Go", sel |-> "button"],
               [type |-> "input", text |-> "Q", sel |-> ".search", context |-> "search form"]>>]
Snapshots == {SparseSnapshot, MarkupSnapshot}

\* Where an exception is raised inside the DOM pass: nowhere, by the JSDOM
\* constructor, or by the query of the document.
Faults == {"none", "parse", "query"}

(* ------------------------------------------------------------------ *)
(* Per-page tables (each entry is the function of the code applied to  *)
(* the page; the tables only keep the checker from recomputing them)   *)
(* ------------------------------------------------------------------ *)

\* new JSDOM(html).window.document
\* A function as an explicit table: every value is computed once, when the table
\* is built, and each later application is a lookup.
Tabulated(f) == f @@ << >>

DocumentOf == Tabulated([h \in AllPages |-> Parse(h)])

\* findMeaningfulElements(document), each element with what its conversion reads.
ViewsOf ==
  Tabulated([h \in AllPages |->
     Bind(DocumentOf[h], LAMBDA d :
       Bind(findMeaningfulElements(d), LAMBDA found :
         Tabulated([k \in 1..Len(found) |-> ElementView(d, found[k])])))])

\* What constructing the JSDOM of a document does besides parsing, under
\* runScripts: 'dangerously' and resources: 'usable': every inline classic script
\* of the page is run, and every external script is requested over the network.
ClassicScriptTypes == {"", "text/javascript", "application/javascript"}
PageEffects(d) ==
  {[kind |-> "run", what |-> Trim(textContent(d, n))] :
     n \in {m \in 1..Len(d) : /\ d[m].tag = "script"
                              /\ ~hasAttribute(d, m, "src")
                              /\ ToLower(Attr(d, m, "type")) \in ClassicScriptTypes
                              /\ Trim(textContent(d, m)) # ""}}
  \cup {[kind |-> "fetch", what |-> Attr(d, n, "src")] :
          n \in {m \in 1..Len(d) : /\ d[m].tag = "script"
                                   /\ Attr(d, m, "src") # ""
                                   /\ ToLower(Attr(d, m, "type")) \in ClassicScriptTypes}}
EffectsOf == Tabulated([h \in AllPages |-> PageEffects(DocumentOf[h])])
\* console.warn('DOM parsing failed:', error.message)
WarnEffect == [kind |-> "console", what |-> "DOM parsing failed:"]

HashOf == Tabulated([h \in AllPages |-> generateHtmlHash(h)])
TitleOf == Tabulated([h \in AllPages |-> getTitle(h)])
TextOf == Tabulated([h \in AllPages |-> getText(h)])
RegexElemsOf == Tabulated([h \in AllPages |-> getElemsRegex(h)])

(* ------------------------------------------------------------------ *)
(* State                                                               *)
(* ------------------------------------------------------------------ *)

VARIABLES
  domCache,          \* Map<string, Document> in insertion order: <<[key, doc], ...>>,
                     \* a Document named by the page it was parsed from
  selectorCache,     \* Map<string, string>
  lastCacheCleanup,  \* ms
  now,               \* Date.now(), ms
  ret,               \* the last call and what it returned
  calls,             \* calls made
  ticks              \* clock steps made

vars == <<domCache, selectorCache, lastCacheCleanup, now, ret, calls, ticks>>

\* Bounds of the exploration.
MaxCalls == 2
MaxTicks == 2
\* The clock advances by one of these steps.
ClockSteps == {1, CACHE_TTL}

NoCall == [op |-> "none"]

(* ------------------------------------------------------------------ *)
(* Operations                                                          *)
(* ------------------------------------------------------------------ *)

\* The three statics after cleanupCaches() at time t.
\* A sweep that is also due when exactly the interval has elapsed.
SweepDueAtInterval(last, t) == t - last >= CACHE_TTL
\* if (now - this.lastCacheCleanup > this.CACHE_TTL)
SweepDue(last, t) == t - last > CACHE_TTL

\* A capacity test that also holds for a cache at capacity.
OverCapacityInclusive(dc) == Len(dc) >= MAX_CACHE_SIZE
\* if (this.domCache.size > this.MAX_CACHE_SIZE)
OverCapacity(dc) == Len(dc) > MAX_CACHE_SIZE

\* The document cache without the entries.slice(0, Math.floor(entries.length / 2)).
WithoutOldestHalf(dc) == SubSeq(dc, Len(dc) \div 2 + 1, Len(dc))

\* A sweep that leaves the selector cache alone.
SweptSelectorsKept(sc) == sc
\* this.selectorCache.clear()
SweptSelectors(sc) == EmptyCache

\* A room test that also admits an entry into a cache at capacity.
CacheHasRoomInclusive(dc) == Len(dc) <= MAX_CACHE_SIZE
\* if (this.domCache.size < this.MAX_CACHE_SIZE)
CacheHasRoom(dc) == Len(dc) < MAX_CACHE_SIZE

cleanupCaches(dc, sc, last, t) ==
  IF SweepDue(last, t)
  THEN [domCache |-> IF OverCapacity(dc) THEN WithoutOldestHalf(dc) ELSE dc,
        selectorCache |-> SweptSelectors(sc),
        lastCacheCleanup |-> t,
        swept |-> TRUE]
  ELSE [domCache |-> dc, selectorCache |-> sc, lastCacheCleanup |-> last, swept |-> FALSE]

\* this.domCache.get(cacheKey): the position of the entry, 0 for undefined.
CacheIndex(dc, key) == First(1, Len(dc), LAMBDA k : dc[k].key = key)

\* The body of the try block: the elements (before the catch decides), whether an
\* exception was thrown, and both caches afterwards.
TryElemsDom(html, dc, sc, fault) ==
  Bind(HashOf[html], LAMBDA cacheKey :
    Bind(CacheIndex(dc, cacheKey), LAMBDA hit :
      IF fault = "parse" /\ hit = 0
      THEN [threw |-> TRUE, elems |-> <<>>, domCache |-> dc, selectorCache |-> sc,
            effects |-> {}]
      ELSE
        Bind((IF hit # 0 THEN dc[hit].doc ELSE html), LAMBDA document :
          Bind((IF hit = 0 /\ CacheHasRoom(dc)
                THEN Append(dc, [key |-> cacheKey, doc |-> document]) ELSE dc),
               LAMBDA dc2 :
                 IF fault = "query"
                 THEN [threw |-> TRUE, elems |-> <<>>, domCache |-> dc2, selectorCache |-> sc,
                       effects |-> IF hit = 0 THEN EffectsOf[html] ELSE {}]
                 ELSE Bind(MapElems(ViewsOf[document], sc), LAMBDA mapped :
                        [threw |-> FALSE,
                         elems |-> SubSeq(mapped.elems, 1,
                                          Min(DOM_ELEMS_LIMIT, Len(mapped.elems))),
                         domCache |-> dc2, selectorCache |-> mapped.cache,
                         effects |-> IF hit = 0 THEN EffectsOf[html] ELSE {}])))))

\* The DOM pass without its catch clause: the exception reaches the caller.
getElemsDomUncaught(html, dc, sc, fault) == TryElemsDom(html, dc, sc, fault)
\* try { ... } catch (error) { console.warn(...); return []; }
getElemsDom(html, dc, sc, fault) ==
  Bind(TryElemsDom(html, dc, sc, fault), LAMBDA r :
    IF r.threw
    THEN [r EXCEPT !.threw = FALSE, !.elems = <<>>, !.effects = @ \cup {WarnEffect}]
    ELSE r)

\* A getElems that appends the regex pass's elements to the DOM pass's.
getElemsMixed(html, dc, sc, fault) ==
  Bind(getElemsDom(html, dc, sc, fault), LAMBDA domResult :
    IF domResult.threw THEN domResult
    ELSE [domResult EXCEPT !.elems = @ \o RegexElemsOf[html]]
         @@ [path |-> IF Len(domResult.elems) > 0 THEN "dom" ELSE "regex"])
getElems(html, dc, sc, fault) ==
  Bind(getElemsDom(html, dc, sc, fault), LAMBDA domResult :
    IF domResult.threw THEN domResult
    ELSE IF Len(domResult.elems) > 0 THEN domResult @@ [path |-> "dom"]
    ELSE [domResult EXCEPT !.elems = RegexElemsOf[html]] @@ [path |-> "regex"])

\* const { maxText = 1000, maxElems = 15 } = opts
MaxTextOf(opts) == IF "maxText" \in DOMAIN opts THEN opts.maxText ELSE DEFAULT_MAX_TEXT
MaxElemsOf(opts) == IF "maxElems" \in DOMAIN opts THEN opts.maxElems ELSE DEFAULT_MAX_ELEMS

\* Array.prototype.slice(0, n) for n >= 0.
\* A slice that keeps one entry too many.
SliceSeqOneMore(q, n) == SubSeq(q, 1, Min(n + 1, Len(q)))
SliceSeq(q, n) == SubSeq(q, 1, Min(n, Len(q)))

\* A size guard that also rejects an input of exactly the ceiling.
TooLargeInclusive(html) == Length(html) >= MAX_HTML_LENGTH
\* if (html.length > 5000000)
TooLarge(html) == Length(html) > MAX_HTML_LENGTH

\* Tinyshot.tiny(html, opts) at time t from the statics dc, sc, last: the outcome
\* and the statics afterwards.
tiny(html, opts, fault, dc, sc, last, t) ==
  Bind(cleanupCaches(dc, sc, last, t), LAMBDA c :
    IF TooLarge(html)
    THEN [outcome |-> "error", error |-> "HTML too large for processing", path |-> "none",
          effects |-> {},
          domCache |-> c.domCache, selectorCache |-> c.selectorCache,
          lastCacheCleanup |-> c.lastCacheCleanup, swept |-> c.swept]
    ELSE
      Bind(getElems(html, c.domCache, c.selectorCache, fault), LAMBDA e :
        IF e.threw
        THEN [outcome |-> "error", error |-> "DOM exception", path |-> "none",
              effects |-> e.effects,
              domCache |-> e.domCache, selectorCache |-> e.selectorCache,
              lastCacheCleanup |-> c.lastCacheCleanup, swept |-> c.swept]
        ELSE [outcome |-> "ok",
              snapshot |-> [title |-> TitleOf[html],
                            text |-> Slice(TextOf[html], MaxTextOf(opts)),
                            elems |-> SliceSeq(e.elems, MaxElemsOf(opts))],
              path |-> e.path, effects |-> e.effects,
              domCache |-> e.domCache, selectorCache |-> e.selectorCache,
              lastCacheCleanup |-> c.lastCacheCleanup, swept |-> c.swept]))

Init ==
  /\ domCache = <<>>
  /\ selectorCache = EmptyCache
  /\ now = 0
  /\ lastCacheCleanup = 0
  /\ ret = NoCall
  /\ calls = 0
  /\ ticks = 0

\* The record of a call and of what it returned (r is the value of tiny).
Outcome(html, opts, fault, r) ==
  [op |-> "tiny", html |-> html, opts |-> opts, fault |-> fault,
   outcome |-> r.outcome, path |-> r.path, swept |-> r.swept,
   effects |-> r.effects,
   result |-> IF r.outcome = "ok" THEN r.snapshot ELSE r.error]

\* A caller invokes Tinyshot.tiny(html, opts).
Tiny(html, opts, fault) ==
  /\ calls < MaxCalls
  /\ fault = "parse" => CacheIndex(cleanupCaches(domCache, selectorCache, lastCacheCleanup, now).domCache,
                                   HashOf[html]) = 0
  /\ fault # "none" => ~TooLarge(html)
  /\ \E r \in {tiny(html, opts, fault, domCache, selectorCache, lastCacheCleanup, now)} :
     /\ domCache' = r.domCache
     /\ selectorCache' = r.selectorCache
     /\ lastCacheCleanup' = r.lastCacheCleanup
     /\ ret' = Outcome(html, opts, fault, r)
  /\ calls' = calls + 1
  /\ UNCHANGED <<now, ticks>>

\* Time passes between calls.
Tick(step) ==
  /\ ticks < MaxTicks
  /\ now' = now + step
  /\ ticks' = ticks + 1
  /\ UNCHANGED <<domCache, selectorCache, lastCacheCleanup, ret, calls>>

Next ==
  \/ \E html \in Pages, opts \in OptsSet, fault \in Faults : Tiny(html, opts, fault)
  \/ \E step \in ClockSteps : Tick(step)

Spec == Init /\ [][Next]_vars

\* The k-th of the pages whose documents fill the cache: no element, no script.
FillerPage(k) ==
  Page("<p>" \o At(Digits, ((k \div 100) % 10) + 1) \o At(Digits, ((k \div 10) % 10) + 1)
         \o At(Digits, (k % 10) + 1) \o "</p>")
\* The document cache after one call on each of the first n filler pages.
FillerEntries ==
  Tabulated([k \in 1..(MAX_CACHE_SIZE + 3) |->
               [key |-> generateHtmlHash(FillerPage(k)), doc |-> FillerPage(k)]])
Filled(n) == SubSeq(FillerEntries, 1, n)

\* The pages called on a cache near capacity, and the clock steps between calls.
CapacityPages == {NavFooterPage, HiddenSiblingPage, ScriptPage, OverLimitPage}
CapacityClockSteps == ClockSteps \cup {CACHE_TTL + 1}

\* The state after a call on each of n filler pages at time 0, for a cache that
\* is empty, one short of capacity, or at capacity.
CapacityInit ==
  /\ domCache \in {Filled(0), Filled(MAX_CACHE_SIZE - 1), Filled(MAX_CACHE_SIZE)}
  /\ selectorCache = EmptyCache
  /\ now = 0
  /\ lastCacheCleanup = 0
  /\ ret = NoCall
  /\ calls = 0
  /\ ticks = 0

CapacityNext ==
  \/ \E html \in CapacityPages, opts \in OptsSet, fault \in Faults : Tiny(html, opts, fault)
  \/ \E step \in CapacityClockSteps : Tick(step)

\* Calls on a document cache near its capacity, with sweeps falling due.
CapacitySpec == CapacityInit /\ [][CapacityNext]_vars

\* Runs without end: callers keep calling and time keeps passing.  The code
\* reads the clock only in now - lastCacheCleanup, so both are kept relative to
\* the last sweep (lastCacheCleanup stays 0 and now is the time since then), and
\* the clock is followed until a sweep is due.
LivePages == {NavFooterPage, HiddenSiblingPage}
LiveClockSteps == {CACHE_TTL, CACHE_TTL + 1}

LiveTiny(html, opts, fault) ==
  /\ fault = "parse" => CacheIndex(cleanupCaches(domCache, selectorCache, lastCacheCleanup, now).domCache,
                                   HashOf[html]) = 0
  /\ \E r \in {tiny(html, opts, fault, domCache, selectorCache, lastCacheCleanup, now)} :
     /\ domCache' = r.domCache
     /\ selectorCache' = r.selectorCache
     /\ lastCacheCleanup' = 0
     /\ now' = now - r.lastCacheCleanup
     /\ ret' = Outcome(html, opts, fault, r)
  /\ UNCHANGED <<calls, ticks>>

LiveTick(step) ==
  /\ ~SweepDue(lastCacheCleanup, now)
  /\ now' = now + step
  /\ UNCHANGED <<domCache, selectorCache, lastCacheCleanup, ret, calls, ticks>>

LiveCalls == \E html \in LivePages, opts \in OptsSet, fault \in Faults : LiveTiny(html, opts, fault)
LiveTime == \E step \in LiveClockSteps : LiveTick(step)
LiveNext == LiveCalls \/ LiveTime

\* Calls are repeated for ever and time advances for ever.
LiveSpec == Init /\ [][LiveNext]_vars /\ WF_vars(LiveCalls) /\ WF_vars(LiveTime)

\* A caller invokes Tinyshot.restore(snapshot).
Restore(snapshot) ==
  /\ ret' = [op |-> "restore", snapshot |-> snapshot, result |-> restore(snapshot)]
  /\ UNCHANGED <<domCache, selectorCache, lastCacheCleanup, now, calls, ticks>>

\* The first call of tiny.
Compress(html, opts, fault) == ret = NoCall /\ Tiny(html, opts, fault)

\* restore(tiny(html, opts)): the snapshot just returned is restored.
RestoreReturned == ret.op = "tiny" /\ ret.outcome = "ok" /\ Restore(ret.result)

RestoreNext ==
  \/ \E html \in Pages, opts \in OptsSet, fault \in Faults : Compress(html, opts, fault)
  \/ RestoreReturned
  \/ \E snapshot \in Snapshots : Restore(snapshot)

\* One page is compressed, and snapshots are restored.
RestoreSpec == Init /\ [][RestoreNext]_vars

\* The DOM pass on its own: its functions applied to the documents of DomPages,
\* and a first call of tiny on one of these pages.
Elements(d) == {n \in 1..Len(d) : IsElement(d, n)}
\* The element lists handed to unwrapUselessWrappers: one or two elements.
ListsOf(d) == {<<a>> : a \in Elements(d)} \cup {<<a, b>> : a \in Elements(d), b \in Elements(d)}
WrapperPages == {MultiMatchPage, WrappedLinkPage, DeepWrapperPage, UnmatchedChildPage, HiddenChildPage}

\* findMeaningfulElements(document): the candidates pushed by the selector loop
\* and the list returned.
FoundOf ==
  Tabulated([h \in DomPages |->
     [candidates |-> CandidatesFrom(DocumentOf[h], 1),
      found |-> [k \in 1..Len(ViewsOf[h]) |-> ViewsOf[h][k].node]]])
\* unwrapUselessWrappers(L), and unwrapUselessWrappers of that list.
UnwrappedOf ==
  Tabulated([h \in WrapperPages |->
     Bind(DocumentOf[h], LAMBDA d :
       Tabulated([L \in ListsOf(d) |->
          Bind(unwrapUselessWrappers(d, L), LAMBDA once :
            [once |-> once, twice |-> unwrapUselessWrappers(d, once)])]))])
\* isVisible(element, document)
VisibleOf ==
  Tabulated([h \in DomPages |->
     Bind(DocumentOf[h], LAMBDA d : Tabulated([n \in Elements(d) |-> isVisible(d, n)]))])

Find(html) ==
  /\ ret' = [op |-> "find", html |-> html, candidates |-> FoundOf[html].candidates,
             found |-> FoundOf[html].found]
  /\ UNCHANGED <<domCache, selectorCache, lastCacheCleanup, now, calls, ticks>>

Unwrap(html, elements) ==
  /\ ret' = [op |-> "unwrap", html |-> html, elements |-> elements,
             once |-> UnwrappedOf[html][elements].once,
             twice |-> UnwrappedOf[html][elements].twice]
  /\ UNCHANGED <<domCache, selectorCache, lastCacheCleanup, now, calls, ticks>>

Visible(html, element) ==
  /\ ret' = [op |-> "isVisible", html |-> html, element |-> element,
             result |-> VisibleOf[html][element]]
  /\ UNCHANGED <<domCache, selectorCache, lastCacheCleanup, now, calls, ticks>>

\* The first call of tiny, on a page of the DOM pass.
Extract(html, opts) == calls = 0 /\ Tiny(html, opts, "none")

DomNext ==
  \/ \E html \in DomPages : Find(html)
  \/ \E html \in WrapperPages : \E elements \in ListsOf(DocumentOf[html]) : Unwrap(html, elements)
  \/ \E html \in DomPages : \E element \in Elements(DocumentOf[html]) : Visible(html, element)
  \/ \E html \in DomPages, opts \in DomOptsSet : Extract(html, opts)

DomSpec == Init /\ [][DomNext]_vars

(* ------------------------------------------------------------------ *)
(* Properties                                                          *)
(* ------------------------------------------------------------------ *)

\* The last step was a call that returned a snapshot.
Returned == ret.op = "tiny" /\ ret.outcome = "ok"

\* C1: for an input within the size ceiling and positive maxText and maxElems
\* (defaults 1000 and 15), the returned snapshot has text.length <= maxText and
\* elems.length <= maxElems, on the DOM path and on the regex path alike.
C1_OutputWithinBounds ==
  Returned =>
    /\ Len(ret.result.text) <= MaxTextOf(ret.opts)
    /\ Len(ret.result.elems) <= MaxElemsOf(ret.opts)

\* C1 happens: the regex fallback found more elements than maxElems and the
\* snapshot holds exactly maxElems of them.
C1_Witness ==
  /\ Returned
  /\ ret.path = "regex"
  /\ Len(RegexElemsOf[ret.html]) > MaxElemsOf(ret.opts)
  /\ Len(ret.result.elems) = MaxElemsOf(ret.opts)

\* C2: a call fails with the input-too-large error exactly when the input is
\* longer than 5,000,000 characters.
C2_SizeGuard ==
  ret.op = "tiny" =>
    ((ret.outcome = "error" /\ ret.result = "HTML too large for processing")
       <=> Length(ret.html) > 5000000)

\* C2 happens: an input of 5,000,000 characters was accepted (its document is
\* cached) and an input of 5,000,001 characters has just been rejected.
C2_Witness ==
  /\ ret.op = "tiny"
  /\ Length(ret.html) = 5000001
  /\ ret.outcome = "error"
  /\ \E k \in 1..Len(domCache) : Length(domCache[k].doc) = 5000000

\* The snapshot of a call made with both caches disabled: the document is parsed
\* from the input and every selector is computed from the element itself.
UncachedElems(html) ==
  LET views == ViewsOf[html]
      dom == [k \in 1..Min(50, Len(views)) |-> [views[k].elem EXCEPT !.sel = views[k].fresh]]
  IN IF Len(dom) > 0 THEN dom ELSE RegexElemsOf[html]

UncachedSnapshot(html, opts) ==
  [title |-> TitleOf[html],
   text |-> SubSeq(TextOf[html], 1, Min(MaxTextOf(opts), Len(TextOf[html]))),
   elems |-> SubSeq(UncachedElems(html), 1, Min(MaxElemsOf(opts), Len(UncachedElems(html))))]

\* C3: whatever calls were made before and whatever time has passed, the snapshot
\* a call returns equals the snapshot of the same call with the document cache
\* and the selector cache disabled.
C3_CacheTransparent ==
  (Returned /\ ret.fault = "none") => ret.result = UncachedSnapshot(ret.html, ret.opts)

HiddenMarked(d, n) ==
  \/ hasAttribute(d, n, "hidden")
  \/ \E v \in {"display:none", "display: none", "visibility:hidden", "visibility: hidden"} :
       Includes(Attr(d, n, "style"), v)
  \/ \E c \in {"hidden", "invisible", "d-none", "sr-only", "visually-hidden"} :
       Includes(Attr(d, n, "class"), c)
HiddenInPage(d, n) ==
  \E a \in 1..Len(d) : IsElement(d, a) /\ IsInside(d, a, n) /\ HiddenMarked(d, a)
\* The labels of the page's buttons and links that are hidden, resp. not hidden.
LabelsOf(d, hidden) ==
  {SubSeq(Trim(textContent(d, n)), 1, Min(30, Len(Trim(textContent(d, n))))) :
     n \in {m \in 1..Len(d) : d[m].tag \in {"button", "a"} /\ HiddenInPage(d, m) = hidden}}

\* C5: no hidden element of the page (hidden itself or through an ancestor)
\* appears in elems; the page with a hidden and a visible sibling button yields
\* the visible one only.
C5_NoHiddenElements ==
  Returned =>
    LET d == DocumentOf[ret.html] IN
    /\ \A k \in 1..Len(ret.result.elems) :
         ret.result.elems[k].text \in LabelsOf(d, TRUE) => ret.result.elems[k].text \in LabelsOf(d, FALSE)
    /\ ret.html = HiddenSiblingPage /\ MaxElemsOf(ret.opts) > 1 =>
         [k \in 1..Len(ret.result.elems) |-> ret.result.elems[k].text] = <<"Visible">>

\* C6: every element of the snapshot has a label of at most 30 characters.
C6_LabelsWithinThirty ==
  Returned => \A k \in 1..Len(ret.result.elems) : Len(ret.result.elems[k].text) <= 30

\* The number of entries of elems of the given kind.
KindCount(elems, kind) == Cardinality({k \in 1..Len(elems) : elems[k].type = kind})

\* C7: the login page with default options yields title "Login" and exactly 3
\* elements: two inputs and one button, the button labelled "Sign In".
C7_LoginScenario ==
  (ret.op = "tiny" /\ ret.html = LoginPage /\ ret.opts = NoOpts /\ ret.fault = "none") =>
    /\ ret.outcome = "ok"
    /\ ret.result.title = "Login"
    /\ Len(ret.result.elems) = 3
    /\ KindCount(ret.result.elems, "input") = 2
    /\ KindCount(ret.result.elems, "btn") = 1
    /\ \A k \in 1..Len(ret.result.elems) :
         ret.result.elems[k].type = "btn" => ret.result.elems[k].text = "Sign In"

\* The trimmed content of the first <title ...> ... </title> of the input, of any
\* letter case and any content; "Page" when there is none or it is blank.
TitleContent(html) ==
  LET s == Squeezed(html)
      m == FirstBlock(s, 1, "<title", "</title>", TRUE)
      t == IF m.ok THEN Trim(SubSeq(s, m.from, m.to)) ELSE ""
  IN IF t = "" THEN "Page" ELSE t

\* C8: the title is the trimmed content of the first <title>...</title> of the
\* input, "Page" when the input has no title or a blank one, and never empty.
C8_Title ==
  Returned => (ret.result.title = TitleContent(ret.html) /\ ret.result.title # "")

\* The trimmed contents of the script and style elements of the page.
ScriptContents(d) ==
  {Trim(textContent(d, n)) : n \in {m \in 1..Len(d) : d[m].tag \in {"script", "style"}}} \ {""}

\* C9: the text of the snapshot contains no content of a script or style block
\* of the input.
C9_NoScriptText ==
  Returned => \A c \in ScriptContents(DocumentOf[ret.html]) : ~Includes(ret.result.text, c)

\* The visible text of LongTextPage: its paragraph, 85 times "lorem ipsum".
LongVisibleText == Repeat("lorem ipsum ", 84) \o "lorem ipsum"

\* C10: the text of the snapshot is the first maxText characters of the input's
\* normalized text (scripts and styles removed, tags stripped, whitespace
\* collapsed, trimmed), so its length is min(maxText, length of that text).
C10_TextIsPrefix ==
  Returned =>
    /\ ret.result.text = SubSeq(TextOf[ret.html], 1, Min(MaxTextOf(ret.opts), Len(TextOf[ret.html])))
    /\ ret.html = LongTextPage =>
         ret.result.text = SubSeq(LongVisibleText, 1, Min(MaxTextOf(ret.opts), Len(LongVisibleText)))

\* C10 happens: the long page with maxText 50 gave a text of exactly 50 characters.
C10_Witness ==
  /\ Returned
  /\ ret.html = LongTextPage
  /\ MaxTextOf(ret.opts) = 50
  /\ Len(TextOf[ret.html]) > 1000
  /\ Len(ret.result.text) = 50

\* The last step was a call of restore.
Restored == ret.op = "restore"

\* C11: for every snapshot, the output of tiny on any input included (an input
\* with no title, no text and no elements too), restore returns a string that
\* contains <!DOCTYPE html>, a <title> tag and a <body> tag.
C11_RestoredSkeleton ==
  Restored =>
    /\ Includes(ret.result, "<!DOCTYPE html>")
    /\ Includes(ret.result, "<title>")
    /\ Includes(ret.result, "<body>")

\* C11 happens: the snapshot of the empty page (title "Page", no text, no
\* elements) was restored to a document with a body.
C11_Witness ==
  /\ Restored
  /\ ret.snapshot = [title |-> "Page", text |-> "", elems |-> <<>>]
  /\ Includes(ret.result, "<body>")

\* The escape sequence of one character.
EscapeOf(c) ==
  CASE c = "&" -> "&amp;"
    [] c = "<" -> "&lt;"
    [] c = ">" -> "&gt;"
    [] c = "\"" -> "&quot;"
    [] c = "'" -> "&#x27;"
    [] OTHER -> c
\* v with each character replaced by its escape sequence.
Escaped(v) == Pieces(LAMBDA k : EscapeOf(At(v, k)), 1, Len(v))

\* The markup restore writes around an element's label.
LabelMarkup(elem) ==
  CASE elem.type = "btn" -> "\">" \o Escaped(elem.text) \o "</button>"
    [] elem.type = "link" -> "\">" \o Escaped(elem.text) \o "</a>"
    [] elem.type = "input" -> "placeholder=\"" \o Escaped(elem.text) \o "\">"
    [] elem.type = "select" -> "<option>" \o Escaped(elem.text) \o "</option>"

\* Every "&" of s starts one of the five escape sequences.
AmpersandsEscape(s) ==
  \A i \in 1..Len(s) :
    At(s, i) = "&" =>
      \E e \in {"&amp;", "&lt;", "&gt;", "&quot;", "&#x27;"} : StartsWith(s, i, e)

\* C12: every text value restore embeds (the title, each element label, each
\* paragraph of the text) is HTML-escaped first: its characters &, <, >, " and '
\* appear in the output as their escape sequences only.
C12_TextEscaped ==
  Restored =>
    /\ Includes(ret.result, "<title>" \o Escaped(ret.snapshot.title) \o "</title>")
    /\ \A k \in 1..Len(ret.snapshot.elems) :
         Includes(ret.result, LabelMarkup(ret.snapshot.elems[k]))
    /\ \A k \in 1..Len(SplitParagraphs(ret.snapshot.text)) :
         Trim(SplitParagraphs(ret.snapshot.text)[k]) # "" =>
           Includes(ret.result,
                    "<p>" \o Escaped(Trim(SplitParagraphs(ret.snapshot.text)[k])) \o "</p>")
    /\ AmpersandsEscape(ret.result)
    /\ Count(ret.result, "'") = 0

\* C12 happens: the snapshot with markup characters in its title, labels and
\* paragraphs was restored.
C12_Witness ==
  /\ Restored
  /\ ret.snapshot = MarkupSnapshot
  /\ Includes(ret.result, "<title>Q&amp;A &lt;&quot;it&#x27;s&quot;&gt;</title>")
  /\ Includes(ret.result, "<p>&#x27;c&#x27; &amp; d\n&gt; e</p>")

\* The elements of the restored document d that carry a sel attribute, each as
\* its selector and its label (the placeholder of an input, the text of any
\* other element), in document order.
RenderedElems(d) ==
  Bind(SelectSeq([k \in 1..Len(d) |-> k], LAMBDA n : hasAttribute(d, n, "sel")), LAMBDA found :
    [k \in 1..Len(found) |->
       [sel |-> Attr(d, found[k], "sel"),
        label |-> IF d[found[k]].tag = "input" THEN Attr(d, found[k], "placeholder")
                  ELSE textContent(d, found[k])]])

\* The number of entries of q equal to x.
Occurrences(q, x) == Cardinality({k \in 1..Len(q) : q[k] = x})

\* C13: restore renders every element of the snapshot exactly once, with its
\* label and its original selector in a sel attribute, whatever its context:
\* the elements of the restored document that carry a sel attribute are the
\* snapshot's elements, each as often as the snapshot holds it.
C13_EveryElementOnce ==
  Restored =>
    LET rendered == RenderedElems(Parse(Page(ret.result)))
        expected == [k \in 1..Len(ret.snapshot.elems) |->
                       [sel |-> ret.snapshot.elems[k].sel,
                        label |-> Escaped(ret.snapshot.elems[k].text)]]
    IN /\ Len(rendered) = Len(expected)
       /\ \A k \in 1..Len(expected) :
            Occurrences(rendered, expected[k]) = Occurrences(expected, expected[k])

\* C14: a call of tiny performs no I/O and no network access and runs no code of
\* the page it processes; its only side effects are on the document cache, the
\* selector cache and the last-sweep time.
C14_NoEffects ==
  ret.op = "tiny" => ret.effects = {}

\* C16: in every reachable state, after any calls of tiny on any inputs, the
\* document cache holds at most 100 entries.
C16_CacheWithinCapacity == Len(domCache) <= 100

\* C16 happens: a call has just parsed a page that the full cache does not hold.
C16_Witness ==
  /\ Returned
  /\ ret.path = "dom"
  /\ Len(domCache) = 100
  /\ \A k \in 1..Len(domCache) : domCache[k].doc # ret.html

\* q is an initial part of r.
IsPrefix(q, r) == Len(q) <= Len(r) /\ \A k \in 1..Len(q) : q[k] = r[k]

\* The step is a call of tiny.
IsCall == calls' = calls + 1

\* C18: a sweep runs during a call of tiny exactly when more than 300000 ms have
\* passed since the last sweep; it records the current time as the last-sweep
\* time (so two sweeps are more than 5 minutes apart), and a call within the
\* interval keeps the last-sweep time and removes nothing from either cache.
C18_SweepWhenDue ==
  [][IsCall =>
       /\ ret'.swept <=> (now - lastCacheCleanup > 300000)
       /\ ret'.swept => lastCacheCleanup' = now
       /\ ~ret'.swept =>
            /\ lastCacheCleanup' = lastCacheCleanup
            /\ IsPrefix(domCache, domCache')
            /\ \A key \in DOMAIN selectorCache :
                 key \in DOMAIN selectorCache' /\ selectorCache'[key] = selectorCache[key]]_vars

\* C18 happens: a second sweep has run, 300001 ms after the first.
C18_Witness ==
  /\ ret.op = "tiny"
  /\ ret.swept
  /\ now = 600002
  /\ lastCacheCleanup = now

\* C19: a sweep that finds more than 100 entries in the document cache removes
\* exactly the oldest floor(n / 2) of them and keeps every newer one; a sweep
\* that finds the cache at or under capacity removes no document entry.
C19_OldestHalfEvicted ==
  [][/\ (IsCall /\ ret'.swept /\ Len(domCache) <= 100) => IsPrefix(domCache, domCache')
     /\ \A n \in (MAX_CACHE_SIZE + 1)..(MAX_CACHE_SIZE + 3) :
          cleanupCaches(Filled(n), selectorCache, lastCacheCleanup,
                        lastCacheCleanup + CACHE_TTL + 1).domCache
            = [k \in 1..(n - n \div 2) |-> Filled(n)[n \div 2 + k]]]_vars

\* C19 happens: a sweep found the cache at capacity, and its 100 entries remain.
C19_Witness ==
  /\ ret.op = "tiny"
  /\ ret.swept
  /\ domCache = Filled(100)

\* C20: every sweep clears the selector cache wholesale: after a call that
\* swept, the selector cache holds the selectors that call generated for the
\* elements of its own page and nothing else, none when it generated none.
C20_SelectorsCleared ==
  (ret.op = "tiny" /\ ret.swept) =>
    DOMAIN selectorCache =
      IF ret.outcome = "ok" /\ ret.fault = "none"
      THEN {ViewsOf[ret.html][k].key : k \in 1..Len(ViewsOf[ret.html])}
      ELSE {}

\* C20 happens: the call on the page of links filled the selector cache, and a
\* later call that swept left the selector of its own button only.
C20_Witness ==
  /\ ret.op = "tiny"
  /\ ret.swept
  /\ ret.html = HiddenSiblingPage
  /\ DOMAIN selectorCache = {"button---"}
  /\ \E k \in 1..Len(domCache) : domCache[k].doc = NavFooterPage

\* The document the last call queried: the one cached under the page's hash.
DocumentUsed == domCache[CacheIndex(domCache, HashOf[ret.html])].doc

\* C17: the elements of a snapshot come from one extraction strategy: they are
\* the DOM pass's elements whenever it found any, and the regex pass's elements
\* only when the DOM pass yields none (it threw, or nothing matched); elements
\* of the two passes (only the DOM pass's carry a context) are never mixed.
C17_OneStrategy ==
  Returned =>
    /\ \/ \A k \in 1..Len(ret.result.elems) : "context" \in DOMAIN ret.result.elems[k]
       \/ \A k \in 1..Len(ret.result.elems) : "context" \notin DOMAIN ret.result.elems[k]
    /\ IF ret.fault = "none" /\ Len(ViewsOf[DocumentUsed]) > 0
       THEN /\ ret.path = "dom"
            /\ Len(ret.result.elems)
                 = Min(MaxElemsOf(ret.opts), Min(50, Len(ViewsOf[DocumentUsed])))
            /\ \A k \in 1..Len(ret.result.elems) :
                 [ret.result.elems[k] EXCEPT !.sel = ""] = ViewsOf[DocumentUsed][k].elem
       ELSE /\ ret.path = "regex"
            /\ ret.result.elems
                 = SubSeq(RegexElemsOf[ret.html], 1,
                          Min(MaxElemsOf(ret.opts), Len(RegexElemsOf[ret.html])))

\* C17 happens: the DOM pass parsed the page and found no visible element, and
\* the snapshot holds the two elements of the regex pass.
C17_Witness ==
  /\ Returned
  /\ ret.fault = "none"
  /\ ret.html = HiddenOnlyPage
  /\ Len(ViewsOf[DocumentUsed]) = 0
  /\ Len(ret.result.elems) = 2

\* The document cache holds the document of page h.
Cached(h) == \E k \in 1..Len(domCache) : domCache[k].doc = h

\* C15: every entry placed in the document cache is eventually evicted: under
\* repeated calls of tiny with time advancing past the sweep interval, no entry
\* remains in the document cache for ever.
C15_EntriesEvicted == \A h \in LivePages : []<>(~Cached(h))

\* The last call returned the elements of the DOM pass (no exception injected).
ReturnedDom == Returned /\ ret.fault = "none" /\ ret.path = "dom"

\* C21: selector memoization is transparent: the selector of every element of a
\* snapshot is the selector computed afresh from that element and its own
\* ancestors, also when another element with the same tag, id, class list and
\* type attribute was converted before it (a link in a nav, then a link in a
\* footer).
C21_MemoizationTransparent ==
  ReturnedDom =>
    \A k \in 1..Len(ret.result.elems) : ret.result.elems[k].sel = ViewsOf[DocumentUsed][k].fresh

\* The last step applied unwrapUselessWrappers to a list of elements.
Unwrapped == ret.op = "unwrap"

\* C22: wrapper unwrapping is idempotent: for every list of elements L, lists
\* with wrappers nested more than 5 levels deep included,
\* unwrapUselessWrappers(unwrapUselessWrappers(L)) = unwrapUselessWrappers(L).
C22_UnwrapIdempotent == Unwrapped => ret.twice = ret.once

\* The last step applied findMeaningfulElements to a document.
Found == ret.op = "find"

\* C23: the element list of the DOM pass holds no DOM element twice: an element
\* that several selectors match, or that several wrappers unwrap to, appears
\* once, at the position of its first occurrence.
C23_NoElementTwice ==
  Found =>
    /\ \A i, j \in 1..Len(ret.found) : ret.found[i] = ret.found[j] => i = j
    /\ ret.found = Distinct([k \in 1..Len(ret.candidates) |->
                                UnwrapOne(DocumentOf[ret.html], ret.candidates[k], 0)])

\* C23 happens: the link that four selectors match and the button that two
\* match were pushed seven times in all, and the list holds three elements.
C23_Witness ==
  /\ Found
  /\ ret.html = MultiMatchPage
  /\ Len(ret.candidates) = 7
  /\ Len(ret.found) = 3

\* The selectors that the synthesis rule allows for element n of document d:
\* '#' and the id when the id is meaningful; otherwise the tag, at most two
\* meaningful class names, a type part only for an input with a type attribute
\* (always for one with a non-empty type), after the prefix of the element's own
\* ancestors and a space when there is such a prefix.
SelectorForms(d, n) ==
  LET id == Attr(d, n, "id")
      meaningful == SelectSeq(classList(d, n), isMeaningfulClass)
      classes == Join([k \in 1..Min(2, Len(meaningful)) |-> "." \o meaningful[k]], "")
      typed == "[type=\"" \o Attr(d, n, "type") \o "\"]"
      types == IF d[n].tag = "input" /\ hasAttribute(d, n, "type")
               THEN (IF Attr(d, n, "type") = "" THEN {"", typed} ELSE {typed})
               ELSE {""}
      prefix == IF getParentContext(d, n) = "" THEN "" ELSE getParentContext(d, n) \o " "
  IN IF ~MeaninglessIdPattern(id) /\ Len(id) > 2 /\ Len(id) < 30
     THEN {"#" \o id}
     ELSE {prefix \o d[n].tag \o classes \o type : type \in types}

\* C24: the selector of an element with a meaningful id is '#' and the id,
\* nothing else; the selector of every other element is its tag, at most two
\* meaningful class names and [type="..."] only for an input with a type
\* attribute, preceded by the element's ancestor-context prefix and a space
\* only when that prefix is not empty.
C24_SelectorForm ==
  ReturnedDom =>
    \A k \in 1..Len(ret.result.elems) :
      ret.result.elems[k].sel
        \in SelectorForms(DocumentOf[DocumentUsed], ViewsOf[DocumentUsed][k].node)

\* The first selector of the fixed list that matches element n, 0 for none.
FirstSelector(d, n) == First(1, Len(Selectors), LAMBDA k : Matches(d, n, Selectors[k]))
\* The place of a kind of element in the scan of the regex pass.
RegexRank(type) == CASE type = "btn" -> 1 [] type = "link" -> 2 [] type = "input" -> 3

\* C25: elems is in discovery order over a fixed scan order: in the DOM pass an
\* element first matched by an earlier selector of the list precedes every
\* element first matched by a later one (every button before every anchor with
\* href, every anchor before every typed input), and elements of one selector
\* keep document order; in the regex pass buttons precede links, which precede
\* inputs.
C25_DiscoveryOrder ==
  /\ Found =>
        \A i, j \in 1..Len(ret.found) :
          LET d == DocumentOf[ret.html]
              a == FirstSelector(d, ret.found[i])
              b == FirstSelector(d, ret.found[j])
          IN (i < j /\ a # 0 /\ b # 0) => (a < b \/ (a = b /\ ret.found[i] < ret.found[j]))
  /\ (Returned /\ ret.path = "regex") =>
        \A i, j \in 1..Len(ret.result.elems) :
          i < j => RegexRank(ret.result.elems[i].type) <= RegexRank(ret.result.elems[j].type)

\* The elements of the page of the last call that survive filtering, unwrapping
\* and conversion (those of the regex pass when the DOM pass has none), without
\* their selectors.
Surviving ==
  IF ret.fault = "none" /\ Len(ViewsOf[DocumentUsed]) > 0
  THEN [k \in 1..Len(ViewsOf[DocumentUsed]) |-> ViewsOf[DocumentUsed][k].elem]
  ELSE [k \in 1..Len(RegexElemsOf[ret.html]) |-> [RegexElemsOf[ret.html][k] EXCEPT !.sel = ""]]

\* C26: the only truncation of the element list is to maxElems: elems is the
\* first maxElems of the surviving elements, so elems.length = min(maxElems,
\* number of surviving elements) for every maxElems > 0, above 50 included.
C26_TruncatedToMaxElems ==
  Returned =>
    /\ Len(ret.result.elems) = Min(MaxElemsOf(ret.opts), Len(Surviving))
    /\ \A k \in 1..Len(ret.result.elems) : [ret.result.elems[k] EXCEPT !.sel = ""] = Surviving[k]

\* C27: isVisible(element) is false whenever the element or one of its
\* ancestors up to the document root carries a hidden marker (the hidden
\* attribute, inline display:none or visibility:hidden, a class containing a
\* hidden-utility substring), and true only when no element of that chain
\* carries one.
C27_HiddenThroughAncestors ==
  ret.op = "isVisible" => (ret.result <=> ~HiddenInPage(DocumentOf[ret.html], ret.element))

\* C28: every element the DOM pass returns is meaningful, is visible and is
\* matched by one of the candidate selectors, an element that replaced a
\* wrapper included: unwrapping introduces no hidden element and no element
\* that no selector matches.
C28_FoundPassFilters ==
  Found =>
    \A k \in 1..Len(ret.found) :
      /\ isMeaningfulElement(DocumentOf[ret.html], ret.found[k])
      /\ isVisible(DocumentOf[ret.html], ret.found[k])
      /\ FirstSelector(DocumentOf[ret.html], ret.found[k]) # 0

\* C29: a call of tiny that the size guard rejects leaves the shared state
\* unchanged: the document cache, the selector cache and the last-sweep time
\* are after the failed call what they were before it, whatever time has passed
\* since the last sweep.
C29_RejectedCallChangesNothing ==
  [][(IsCall /\ ret'.outcome = "error" /\ ret'.result = "HTML too large for processing")
       => UNCHANGED <<domCache, selectorCache, lastCacheCleanup>>]_vars

\* C30: every sel attribute of the output of restore is well delimited: the
\* selector between the attribute's double quotes holds no unescaped double
\* quote, so the selector of each element, input[type="text"] included, is read
\* back unchanged from the attribute.
C30_SelReadBack ==
  Restored =>
    LET rendered == RenderedElems(Parse(Page(ret.result)))
    IN /\ \A k \in 1..Len(ret.snapshot.elems) : ~Includes(ret.snapshot.elems[k].sel, "\"")
       /\ {rendered[k].sel : k \in 1..Len(rendered)}
            = {ret.snapshot.elems[k].sel : k \in 1..Len(ret.snapshot.elems)}

====
